---- MODULE Spec2Model ----
(***************************************************************************)
(* A model of the Guile extension layer of gdb (src/gdb/guile):            *)
(*   - memory ports (scm-ports.c): a buffered, seekable port over a range  *)
(*     of inferior memory;                                                  *)
(*   - chained gsmobs (scm-smob.c, scm-symtab.c, scm-symbol.c): the        *)
(*     per-objfile lists used to invalidate symtab/symbol smobs;           *)
(*   - iterators and <gdb:exception> objects (scm-iterator.c,              *)
(*     scm-exception.c);                                                   *)
(*   - the conversion hooks *smob->scm* and *scm->smob* (scm-smob.c) and   *)
(*     the translation of gdb exceptions (scm-exception.c, scm-type.c,     *)
(*     scm-frame.c, scm-symtab.c).                                         *)
(* Each part has its own specification over the same variables; the parts  *)
(* do not share state in the program either.                               *)
(***************************************************************************)
EXTENDS Integers, Sequences, FiniteSets, TLC

VARIABLES
    port,      \* the memory port: ioscm_memory_port + the scm_t_port fields it uses
    last,      \* the last port operation: its name, arguments, outcome, requests
    scen,      \* how far the operations so far follow the r+/0x1000/4 scenario
    smobs,     \* the symtab and symbol smobs, by storage location
    objfiles,  \* the objfiles: alive, and the data of the two keys
    made,      \* the number of symtab and symbol smobs made so far
    clast,     \* the last operation on chained smobs
    iter,      \* the <gdb:iterator> smob
    res,       \* the outcome of the last iterator or exception procedure
    print_excp, \* "set guile print-stack": gdbscm_print_excp
    conv       \* the two conversion hooks and the last conversion or host call

portVars == <<port, last, scen>>
chainVars == <<smobs, objfiles, made, clast>>
iterVars == <<iter, res, print_excp>>
convVars == <<conv>>
vars == <<port, last, scen, smobs, objfiles, made, clast, iter, res,
          print_excp, conv>>

----------------------------------------------------------------------------
(* Bounds of the model.                                                     *)

AddrBits == 13          \* width of CORE_ADDR / ULONGEST / LONGEST in the model
MaxSize == 4            \* largest explicit #:size passed to open-memory
MaxPending == 2         \* most bytes the port layer leaves in the write buffer
MaxPutback == 1         \* most bytes pushed back with unread
MaxPos == 2             \* positions explored: within MaxPos of either end

(* Program constants.                                                       *)

default_read_buf_size == 16
default_write_buf_size == 16
min_memory_port_buf_size == 1
max_memory_port_buf_size == 4096

----------------------------------------------------------------------------
(* Fixed-width arithmetic.                                                  *)

Wrap == 2 ^ AddrBits
AllOnes == Wrap - 1                      \* ~(CORE_ADDR) 0
ToU(x) == x % Wrap                       \* conversion to the unsigned type
Add(a, b) == (a + b) % Wrap              \* unsigned a + b
Sub(a, b) == (a - b) % Wrap              \* unsigned a - b

InitByte(a) == 128 + (a % 2)             \* the byte at address a
ScenStart == 16 * 256                    \* 0x1000
ScenSize == 2 * 2                        \* the size of the range at 0x1000

Min(a, b) == IF a < b THEN a ELSE b

SEEK_SET == "SEEK_SET"
SEEK_CUR == "SEEK_CUR"
SEEK_END == "SEEK_END"

SCM_PORT_NEITHER == "neither"
SCM_PORT_READ == "read"
SCM_PORT_WRITE == "write"

----------------------------------------------------------------------------
(* Exceptions thrown by the port code: key and message.                     *)

NoErr == [key |-> "none", msg |-> ""]
OutOfRange(m) == [key |-> "out-of-range", msg |-> m]
MemoryError(m) == [key |-> "gdb:memory-error", msg |-> m]
MiscError(m) == [key |-> "misc-error", msg |-> m]
EofMark == [key |-> "eof", msg |-> ""]   \* fill_input returning EOF (no throw)

(* Inferior memory: what target_read_memory delivers.  What                 *)
(* target_write_memory stores is kept in the request it is given.           *)

ReadMem(a, n) == [i \in 1..n |-> InitByte(Add(a, i - 1))]

(* A request made to the inferior: target_read_memory/target_write_memory.  *)
Req(op, addr, data, ok) == [op |-> op, addr |-> addr, data |-> data, ok |-> ok]

(* The outcome of a handler: the port, the requests made, the error thrown  *)
(* (NoErr when it returns) and the value returned.                          *)
Out(p, io, err, ret) == [p |-> p, io |-> io, err |-> err, ret |-> ret]

----------------------------------------------------------------------------
(* The memory port.  read_buf holds the bytes between pt->read_buf and      *)
(* pt->read_end of the buffer in use (the putback buffer when in_putback),  *)
(* read_pos is pt->read_pos - pt->read_buf; write_buf holds the bytes       *)
(* between pt->write_buf and pt->write_pos.  pt_read_buf_size is            *)
(* pt->read_buf_size, the size of the buffer in use: the port layer saves   *)
(* the size of the read buffer with its pointers when it switches to the    *)
(* putback buffer.                                                          *)

SCM_INITIAL_PUTBACK_BUF_SIZE == 4

NoPort ==
    [state |-> "none", mode |-> "", start |-> 0, end |-> 0, size |-> 0,
     current |-> 0, read_buf_size |-> 0, write_buf_size |-> 0,
     pt_read_buf_size |-> 0, pt_write_buf_size |-> 0,
     read_buf |-> <<>>, read_pos |-> 0, in_putback |-> FALSE,
     saved_read_buf |-> <<>>, saved_read_pos |-> 0,
     saved_read_buf_size |-> 0,
     write_buf |-> <<>>, rw_active |-> SCM_PORT_NEITHER]

ToS(u) == IF u >= Wrap \div 2 THEN u - Wrap ELSE u    \* unsigned -> signed

(* ioscm_lseek_address without the check of the new position against the   *)
(* size of the range.                                                       *)
lseek_without_size_check(p, offset, whence) ==
    LET sum == Add(p.current, ToU(offset))
        bad == [ok |-> FALSE, p |-> p]
        Finish(new_current) ==
            [ok |-> TRUE, p |-> [p EXCEPT !.current = new_current]]
    IN CASE whence = SEEK_CUR ->
              IF (offset < 0 /\ sum > p.current) \/ (offset >= 0 /\ sum < p.current)
              THEN bad ELSE Finish(sum)
         [] whence = SEEK_SET -> Finish(ToU(offset))
         [] whence = SEEK_END -> IF offset = 0 THEN Finish(p.size) ELSE bad
         [] OTHER -> bad

(* ioscm_lseek_address: [ok, p].  OFFSET is a signed LONGEST.               *)
ioscm_lseek_address(p, offset, whence) ==
    LET sum == Add(p.current, ToU(offset))
        bad == [ok |-> FALSE, p |-> p]
        Finish(new_current) ==
            IF new_current > p.size THEN bad
            ELSE [ok |-> TRUE, p |-> [p EXCEPT !.current = new_current]]
    IN CASE whence = SEEK_CUR ->
              IF (offset < 0 /\ sum > p.current) \/ (offset >= 0 /\ sum < p.current)
              THEN bad ELSE Finish(sum)
         [] whence = SEEK_SET -> Finish(ToU(offset))
         [] whence = SEEK_END -> IF offset = 0 THEN Finish(p.size) ELSE bad
         [] OTHER -> bad

(* gdbscm_memory_port_fill_input reading a whole buffer whatever is left of *)
(* the range.                                                               *)
fill_input_without_clamp(p, rok) ==
    IF p.current >= p.size THEN Out(p, <<>>, EofMark, 0)
    ELSE
      LET to_read == p.pt_read_buf_size
          addr == Add(p.start, p.current)
          data == ReadMem(addr, to_read)
      IN IF ~rok
         THEN Out(p, <<Req("read", addr, data, FALSE)>>,
                  MemoryError("error reading memory"), 0)
         ELSE Out([p EXCEPT !.read_buf = data, !.read_pos = 0,
                            !.current = Add(p.current, to_read)],
                  <<Req("read", addr, data, TRUE)>>, NoErr, data[1])

(* gdbscm_memory_port_fill_input.  rok: target_read_memory succeeds.        *)
gdbscm_memory_port_fill_input(p, rok) ==
    IF p.current >= p.size THEN Out(p, <<>>, EofMark, 0)
    ELSE
      LET avail == Sub(p.size, p.current)
          to_read == IF p.pt_read_buf_size > avail THEN avail
                     ELSE p.pt_read_buf_size
          addr == Add(p.start, p.current)
          data == ReadMem(addr, to_read)
      IN IF ~rok
         THEN Out(p, <<Req("read", addr, data, FALSE)>>,
                  MemoryError("error reading memory"), 0)
         ELSE Out([p EXCEPT !.read_buf = data, !.read_pos = 0,
                            !.current = Add(p.current, to_read)],
                  <<Req("read", addr, data, TRUE)>>, NoErr, data[1])

(* gdbscm_memory_port_end_input moving current back without dropping what   *)
(* is unread in the buffer.                                                 *)
end_input_keeping_read_buf(p, offset) ==
    LET remaining == Len(p.read_buf) - p.read_pos
        offset2 == ToS(Add(remaining, ToU(offset)))
        r == ioscm_lseek_address(p, -offset2, SEEK_CUR)
    IN IF offset2 > 0 /\ ~r.ok
       THEN Out(p, <<>>, OutOfRange("bad offset"), 0)
       ELSE Out([(IF offset2 > 0 THEN r.p ELSE p)
                    EXCEPT !.rw_active = SCM_PORT_NEITHER],
                <<>>, NoErr, 0)

(* gdbscm_memory_port_end_input dropping the read buffer without moving     *)
(* current back.                                                            *)
end_input_without_seek(p, offset) ==
    Out([p EXCEPT !.read_pos = Len(p.read_buf),
                  !.rw_active = SCM_PORT_NEITHER], <<>>, NoErr, 0)

(* gdbscm_memory_port_end_input.  OFFSET is an int.                         *)
gdbscm_memory_port_end_input(p, offset) ==
    LET remaining == Len(p.read_buf) - p.read_pos
        sum == Add(remaining, ToU(offset))
    IN IF (offset < 0 /\ sum > remaining) \/ (offset > 0 /\ sum < remaining)
       THEN Out(p, <<>>, OutOfRange("overflow in offset calculation"), 0)
       ELSE
         LET offset2 == ToS(sum)
         IN IF offset2 > 0
            THEN LET p1 == [p EXCEPT !.read_pos = Len(p.read_buf)]
                     r == ioscm_lseek_address(p1, -offset2, SEEK_CUR)
                 IN IF ~r.ok
                    THEN Out(p1, <<>>, OutOfRange("bad offset"), 0)
                    ELSE Out([r.p EXCEPT !.rw_active = SCM_PORT_NEITHER],
                             <<>>, NoErr, 0)
            ELSE Out([p EXCEPT !.rw_active = SCM_PORT_NEITHER], <<>>, NoErr, 0)

(* scm_end_input of the port layer, as called at scm-ports.c:626: leave the *)
(* putback buffer, then call the end_input method with what was unread in it*)
scm_end_input(p) ==
    IF p.in_putback
    THEN gdbscm_memory_port_end_input(
             [p EXCEPT !.read_buf = p.saved_read_buf,
                       !.read_pos = p.saved_read_pos,
                       !.pt_read_buf_size = p.saved_read_buf_size,
                       !.in_putback = FALSE,
                       !.saved_read_buf = <<>>, !.saved_read_pos = 0,
                       !.saved_read_buf_size = 0],
             Len(p.read_buf) - p.read_pos)
    ELSE gdbscm_memory_port_end_input(p, 0)

(* gdbscm_memory_port_flush without the check against the end of the       *)
(* range.                                                                   *)
flush_without_range_check(p, wok) ==
    LET to_write == Len(p.write_buf)
        addr == Add(p.start, p.current)
    IN IF to_write = 0 THEN Out(p, <<>>, NoErr, 0)
       ELSE IF ~wok
       THEN Out(p, <<Req("write", addr, p.write_buf, FALSE)>>,
                MemoryError("error writing memory"), 0)
       ELSE Out([p EXCEPT !.current = Add(p.current, to_write),
                          !.write_buf = <<>>,
                          !.rw_active = SCM_PORT_NEITHER],
                <<Req("write", addr, p.write_buf, TRUE)>>, NoErr, 0)

(* gdbscm_memory_port_flush leaving the port marked as writing.             *)
flush_keeping_rw_active(p, wok) ==
    LET to_write == Len(p.write_buf)
        addr == Add(p.start, p.current)
    IN IF to_write = 0 THEN Out(p, <<>>, NoErr, 0)
       ELSE IF to_write > Sub(p.size, p.current)
       THEN Out(p, <<>>, OutOfRange("writing beyond end of memory range"), 0)
       ELSE IF ~wok
       THEN Out(p, <<Req("write", addr, p.write_buf, FALSE)>>,
                MemoryError("error writing memory"), 0)
       ELSE Out([p EXCEPT !.current = Add(p.current, to_write),
                          !.write_buf = <<>>],
                <<Req("write", addr, p.write_buf, TRUE)>>, NoErr, 0)

(* gdbscm_memory_port_flush.  wok: target_write_memory succeeds.            *)
gdbscm_memory_port_flush(p, wok) ==
    LET to_write == Len(p.write_buf)
        addr == Add(p.start, p.current)
    IN IF to_write = 0 THEN Out(p, <<>>, NoErr, 0)
       ELSE IF to_write > Sub(p.size, p.current)
       THEN Out(p, <<>>, OutOfRange("writing beyond end of memory range"), 0)
       ELSE IF ~wok
       THEN Out(p, <<Req("write", addr, p.write_buf, FALSE)>>,
                MemoryError("error writing memory"), 0)
       ELSE Out([p EXCEPT !.current = Add(p.current, to_write),
                          !.write_buf = <<>>,
                          !.rw_active = SCM_PORT_NEITHER],
                <<Req("write", addr, p.write_buf, TRUE)>>, NoErr, 0)

(* gdbscm_memory_port_write refusing a write that ends at the last address  *)
(* of the range (>= for >).                                                 *)
write_refusing_last_address(p, data, wok1, wok2) ==
    LET f == gdbscm_memory_port_flush(p, wok1)
        q == f.p
        size == Len(data)
        addr == Add(q.start, q.current)
    IN IF f.err # NoErr THEN f
       ELSE IF size >= Sub(q.size, q.current)
       THEN Out(q, f.io,
                OutOfRange("writing beyond end of memory range"), 0)
       ELSE IF ~wok2
       THEN Out(q, f.io \o <<Req("write", addr, data, FALSE)>>,
                MemoryError("error writing memory"), 0)
       ELSE Out([q EXCEPT !.current = Add(q.current, size)],
                f.io \o <<Req("write", addr, data, TRUE)>>, NoErr, 0)

(* gdbscm_memory_port_write issuing the new bytes without flushing what is  *)
(* buffered.                                                                *)
write_without_flush(p, data, wok1, wok2) ==
    LET size == Len(data)
        addr == Add(p.start, p.current)
    IN IF size > Sub(p.size, p.current)
       THEN Out(p, <<>>,
                OutOfRange("writing beyond end of memory range"), 0)
       ELSE IF ~wok2
       THEN Out(p, <<Req("write", addr, data, FALSE)>>,
                MemoryError("error writing memory"), 0)
       ELSE Out([p EXCEPT !.current = Add(p.current, size)],
                <<Req("write", addr, data, TRUE)>>, NoErr, 0)

(* gdbscm_memory_port_write.  wok1, wok2: the flush's and the direct        *)
(* request's target_write_memory succeed.                                   *)
gdbscm_memory_port_write(p, data, wok1, wok2) ==
    LET f == gdbscm_memory_port_flush(p, wok1)
        q == f.p
        size == Len(data)
        addr == Add(q.start, q.current)
    IN IF f.err # NoErr THEN f
       ELSE IF size > Sub(q.size, q.current)
       THEN Out(q, f.io,
                OutOfRange("writing beyond end of memory range"), 0)
       ELSE IF ~wok2
       THEN Out(q, f.io \o <<Req("write", addr, data, FALSE)>>,
                MemoryError("error writing memory"), 0)
       ELSE Out([q EXCEPT !.current = Add(q.current, size)],
                f.io \o <<Req("write", addr, data, TRUE)>>, NoErr, 0)

(* A seek method that leaves the port alone and reports position 0.         *)
seek_reporting_zero(p, offset, whence, wok) == Out(p, <<>>, NoErr, 0)

(* gdbscm_memory_port_seek.  The result is thrown away when rc is 0.        *)
gdbscm_memory_port_seek(p, offset, whence, wok) ==
    LET Bad(q, io) == Out(q, io, OutOfRange("bad seek"), 0)
        Lseek(q, io) ==
            LET r == ioscm_lseek_address(q, offset, whence)
            IN IF r.ok THEN Out(r.p, io, NoErr, r.p.current)
               ELSE Bad(q, io)
    IN IF p.rw_active = SCM_PORT_WRITE
       THEN IF offset # 0 \/ whence # SEEK_CUR
            THEN LET f == gdbscm_memory_port_flush(p, wok)
                 IN IF f.err # NoErr THEN f ELSE Lseek(f.p, f.io)
            ELSE LET current == p.current
                     delta == Len(p.write_buf)
                 IN IF Add(current, delta) < current
                       \/ Add(current, delta) > Add(p.size, 1)
                    THEN Bad(p, <<>>)
                    ELSE Out(p, <<>>, NoErr, Add(current, delta))
       ELSE IF p.rw_active = SCM_PORT_READ
       THEN IF offset # 0 \/ whence # SEEK_CUR
            THEN LET e == scm_end_input(p)
                 IN IF e.err # NoErr THEN e ELSE Lseek(e.p, e.io)
            ELSE LET current == p.current
                     remaining == Len(p.read_buf) - p.read_pos
                     result == Sub(current, remaining)
                     rc == ~(result > current \/ result < p.start)
                     saved_remaining == Len(p.saved_read_buf) - p.saved_read_pos
                     result2 == Sub(result, saved_remaining)
                 IN IF ~rc THEN Bad(p, <<>>)
                    ELSE IF p.in_putback
                    THEN IF result2 > result \/ result2 < p.start
                         THEN Bad(p, <<>>)
                         ELSE Out(p, <<>>, NoErr, result2)
                    ELSE Out(p, <<>>, NoErr, result)
       ELSE Lseek(p, <<>>)

(* gdbscm_memory_port_close (and gdbscm_memory_port_free, which calls it).  *)
gdbscm_memory_port_close(p, wok) ==
    LET f == gdbscm_memory_port_flush(p, wok)
    IN IF f.err # NoErr THEN f
       ELSE Out([NoPort EXCEPT !.state = "closed"], f.io, NoErr, 0)

(* ioscm_init_memory_port, on the port made by ioscm_open_port.             *)
ioscm_init_memory_port(mode, start, end) ==
    [NoPort EXCEPT !.state = "open", !.mode = mode,
                   !.start = start, !.end = end,
                   !.size = Add(Sub(end, start), 1), !.current = 0,
                   !.read_buf_size = default_read_buf_size,
                   !.write_buf_size = default_write_buf_size,
                   !.pt_read_buf_size = default_read_buf_size,
                   !.pt_write_buf_size = default_write_buf_size]

(* ioscm_reinit_memory_port.                                                *)
ioscm_reinit_memory_port(p, read_buf_size, write_buf_size) ==
    IF read_buf_size # p.pt_read_buf_size /\ Len(p.read_buf) # 0
    THEN Out(p, <<>>, MiscError("read buffer not empty"), 0)
    ELSE IF write_buf_size # p.pt_write_buf_size /\ Len(p.write_buf) # 0
    THEN Out(p, <<>>, MiscError("write buffer not empty"), 0)
    ELSE
      LET p1 == IF read_buf_size # p.pt_read_buf_size
                THEN [p EXCEPT !.read_buf_size = read_buf_size,
                               !.pt_read_buf_size = read_buf_size,
                               !.read_buf = <<>>, !.read_pos = 0]
                ELSE p
          p2 == IF write_buf_size # p1.pt_write_buf_size
                THEN [p1 EXCEPT !.write_buf_size = write_buf_size,
                                !.pt_write_buf_size = write_buf_size,
                                !.write_buf = <<>>]
                ELSE p1
      IN Out(p2, <<>>, NoErr, 0)

(* scm_is_unsigned_integer (size, min, max) of the two resize procedures.   *)
ValidBufSize(size) ==
    size >= min_memory_port_buf_size /\ size <= max_memory_port_buf_size

(* gdbscm_set_memory_port_read_buffer_size_x without the check of the size  *)
(* against the limits.                                                      *)
set_read_buffer_size_unchecked(p, size) ==
    ioscm_reinit_memory_port(p, size, p.write_buf_size)

(* gdbscm_set_memory_port_read_buffer_size_x.                               *)
gdbscm_set_memory_port_read_buffer_size_x(p, size) ==
    IF ~ValidBufSize(size)
    THEN Out(p, <<>>, OutOfRange("size not between 1 - 4096"), 0)
    ELSE ioscm_reinit_memory_port(p, size, p.write_buf_size)

(* gdbscm_set_memory_port_write_buffer_size_x.                              *)
gdbscm_set_memory_port_write_buffer_size_x(p, size) ==
    IF ~ValidBufSize(size)
    THEN Out(p, <<>>, OutOfRange("size not between 1 - 4096"), 0)
    ELSE ioscm_reinit_memory_port(p, p.read_buf_size, size)

(* ioscm_parse_mode_bits: r or w, then any of b and +.                      *)
ValidMode(mode) == mode \in {"r", "w", "r+", "rb", "w+"}
CanRead(p) == p.mode \in {"r", "r+", "rb", "w+"}
CanWrite(p) == p.mode \in {"w", "r+", "w+"}

(* gdbscm_open_memory without the check of start + size for overflow.      *)
open_memory_without_overflow_check(mode, start, size) ==
    LET Fail(e) == [err |-> e, p |-> NoPort]
        end == IF size # (0 - 1) THEN Sub(Add(start, size), 1)
               ELSE AllOnes - 1
    IN IF start = AllOnes
       THEN Fail(OutOfRange("start address of 0xff..ff not allowed"))
       ELSE IF size # (0 - 1) /\ size = 0
       THEN Fail(OutOfRange("zero size"))
       ELSE IF size # (0 - 1) /\ end = AllOnes
       THEN Fail(OutOfRange("end address of 0xff..ff not allowed"))
       ELSE IF ~ValidMode(mode)
       THEN Fail(OutOfRange("bad mode string"))
       ELSE [err |-> NoErr, p |-> ioscm_init_memory_port(mode, start, end)]

(* gdbscm_open_memory.  size = NoSize when #:size is not given; start is 0  *)
(* when #:start is not given.  The result: the error and the new port.      *)
NoSize == -1
gdbscm_open_memory(mode, start, size) ==
    LET Fail(e) == [err |-> e, p |-> NoPort]
        end == IF size # NoSize THEN Sub(Add(start, size), 1)
               ELSE AllOnes - 1
    IN IF start = AllOnes
       THEN Fail(OutOfRange("start address of 0xff..ff not allowed"))
       ELSE IF size # NoSize /\ size = 0
       THEN Fail(OutOfRange("zero size"))
       ELSE IF size # NoSize /\ Add(start, size) < start
       THEN Fail(OutOfRange("start+size overflows"))
       ELSE IF size # NoSize /\ end = AllOnes
       THEN Fail(OutOfRange("end address of 0xff..ff not allowed"))
       ELSE IF ~ValidMode(mode)
       THEN Fail(OutOfRange("bad mode string"))
       ELSE [err |-> NoErr, p |-> ioscm_init_memory_port(mode, start, end)]

----------------------------------------------------------------------------
(* The port layer's entry points, which drive the methods above.  They are  *)
(* the callers the methods are registered for in                            *)
(* ioscm_create_memory_port_type; each does what the port API prescribes    *)
(* around the method (set rw_active, leave the putback buffer, flush        *)
(* before reading, end input before writing).                               *)

Ok(p) == Out(p, <<>>, NoErr, 0)

(* Writing through the port: end input if reading, call the write method,   *)
(* then mark the port as writing.                                           *)
scm_c_write(p, data, wok1, wok2) ==
    LET e == IF p.rw_active = SCM_PORT_READ THEN scm_end_input(p)
             ELSE Ok(p)
    IN IF e.err # NoErr THEN e
       ELSE LET w == gdbscm_memory_port_write(e.p, data, wok1, wok2)
            IN IF w.err # NoErr THEN w
               ELSE [w EXCEPT !.p.rw_active = SCM_PORT_WRITE]

(* A byte left in the write buffer by the port layer (write_pos advances).  *)
scm_buffered_put(p, b) ==
    LET e == IF p.rw_active = SCM_PORT_READ THEN scm_end_input(p)
             ELSE Ok(p)
    IN IF e.err # NoErr THEN e
       ELSE Ok([e.p EXCEPT !.write_buf = Append(@, b),
                           !.rw_active = SCM_PORT_WRITE])

(* Looking at the next byte when the buffer in use is exhausted: flush if   *)
(* writing, mark the port as reading, leave the putback buffer, and call    *)
(* the fill_input method unless the saved buffer still holds bytes.         *)
scm_fill_input(p, wok, rok) ==
    LET f == IF p.rw_active = SCM_PORT_WRITE
             THEN gdbscm_memory_port_flush(p, wok) ELSE Ok(p)
        q == [f.p EXCEPT !.rw_active = SCM_PORT_READ]
        back == [q EXCEPT !.read_buf = q.saved_read_buf,
                          !.read_pos = q.saved_read_pos,
                          !.pt_read_buf_size = q.saved_read_buf_size,
                          !.in_putback = FALSE,
                          !.saved_read_buf = <<>>, !.saved_read_pos = 0,
                          !.saved_read_buf_size = 0]
    IN IF f.err # NoErr THEN f
       ELSE IF q.in_putback /\ back.read_pos < Len(back.read_buf)
       THEN Out(back, f.io, NoErr, back.read_buf[back.read_pos + 1])
       ELSE LET g == gdbscm_memory_port_fill_input(
                         IF q.in_putback THEN back ELSE q, rok)
            IN [g EXCEPT !.io = f.io \o g.io]

(* Taking the next byte out of the buffer in use.                           *)
scm_get_byte(p) ==
    Out([p EXCEPT !.read_pos = @ + 1, !.rw_active = SCM_PORT_READ],
        <<>>, NoErr, p.read_buf[p.read_pos + 1])

(* unread: push a byte back, switching to the putback buffer.               *)
scm_unget_byte(p, b) ==
    IF p.in_putback
    THEN Ok([p EXCEPT !.read_buf = <<b>> \o SubSeq(@, p.read_pos + 1, Len(@)),
                      !.read_pos = 0, !.rw_active = SCM_PORT_READ])
    ELSE Ok([p EXCEPT !.saved_read_buf = p.read_buf,
                      !.saved_read_pos = p.read_pos,
                      !.saved_read_buf_size = p.pt_read_buf_size,
                      !.pt_read_buf_size = SCM_INITIAL_PUTBACK_BUF_SIZE,
                      !.read_buf = <<b>>, !.read_pos = 0,
                      !.in_putback = TRUE, !.rw_active = SCM_PORT_READ])

----------------------------------------------------------------------------
(* Chained gsmobs (scm-smob.c, scm-symtab.c, scm-symbol.c).  A slot is the  *)
(* storage scm_gc_malloc hands out for one <gdb:symtab> or <gdb:symbol>     *)
(* smob; storage released by the collector can be handed out again.  The    *)
(* native pointer of a smob (st_smob->symtab, s_smob->symbol) is modelled   *)
(* by the objfile that owns the symtab or symbol it points to.              *)

MaxSlots == 2           \* smob storage locations
MaxObjfiles == 2        \* objfiles
MaxSmobs == 3           \* symtab and symbol smobs made in a run

NULL == 0
(* The storage locations and the objfiles of a run: SpecChain starts with  *)
(* MaxSlots and MaxObjfiles of them, SpecReuse with one more of each.       *)
Slots == DOMAIN smobs
Objfiles == DOMAIN objfiles
NoSymtab == MaxObjfiles + 2      \* a symbol whose SYMBOL_SYMTAB is NULL

stscm_objfile_data_key == "symtab"
syscm_objfile_data_key == "symbol"
tyscm_objfile_data_key == "type"
Keys == {stscm_objfile_data_key, syscm_objfile_data_key}
AllKeys == Keys \cup {tyscm_objfile_data_key}
ArchOwned == MaxObjfiles + 3     \* a type that belongs to no objfile

(* chained_gdb_smob + the native pointer.  st: unused, alloc or freed       *)
(* storage; held: the smob was handed to the script.                        *)
NoSmob ==
    [st |-> "unused", kind |-> stscm_objfile_data_key, native |-> NULL,
     prev |-> NULL, next |-> NULL, held |-> FALSE]

NoObjfile == [alive |-> FALSE, data |-> [k \in AllKeys |-> NULL]]
LiveObjfile == [alive |-> TRUE, data |-> [k \in AllKeys |-> NULL]]

SetSmob(H, g, f, v) == [H EXCEPT !.smobs[g][f] = v]
SetData(H, objfile, key, v) == [H EXCEPT !.objfiles[objfile].data[key] = v]

(* gdbscm_init_chained_gsmob on storage g of a smob of the given kind, as   *)
(* done by stscm_make_symtab_smob and syscm_make_symbol_smob.               *)
gdbscm_init_chained_gsmob(H, g, kind) ==
    [H EXCEPT !.smobs[g] = [st |-> "alloc", kind |-> kind, native |-> NULL,
                            prev |-> NULL, next |-> NULL, held |-> FALSE]]

stscm_make_symtab_smob(H, g) ==
    gdbscm_init_chained_gsmob(H, g, stscm_objfile_data_key)

syscm_make_symbol_smob(H, g) ==
    gdbscm_init_chained_gsmob(H, g, syscm_objfile_data_key)

(* gdbscm_add_objfile_ref.                                                  *)
gdbscm_add_objfile_ref(H, objfile, data_key, g_smob) ==
    LET H1 == SetSmob(H, g_smob, "prev", NULL)
    IN  IF objfile # NULL
        THEN LET nxt == H1.objfiles[objfile].data[data_key]
                 H2 == SetSmob(H1, g_smob, "next", nxt)
                 H3 == IF nxt # NULL THEN SetSmob(H2, nxt, "prev", g_smob)
                       ELSE H2
             IN  SetData(H3, objfile, data_key, g_smob)
        ELSE SetSmob(H1, g_smob, "next", NULL)

(* gdbscm_remove_objfile_ref.                                               *)
gdbscm_remove_objfile_ref(H, objfile, data_key, g_smob) ==
    LET prv == H.smobs[g_smob].prev
        H1 == IF prv # NULL
              THEN SetSmob(H, prv, "next", H.smobs[g_smob].next)
              ELSE IF objfile # NULL
                   THEN SetData(H, objfile, data_key, H.smobs[g_smob].next)
                   ELSE H
        nxt == H1.smobs[g_smob].next
    IN  IF nxt # NULL THEN SetSmob(H1, nxt, "prev", H1.smobs[g_smob].prev)
        ELSE H1

(* st_smob->symtab->objfile and SYMBOL_SYMTAB (symbol)->objfile.  Reading   *)
(* through a pointer into an objfile that was freed, or through a pointer   *)
(* that a function for another kind of smob stored, yields whatever the     *)
(* storage holds: STALE, any objfile pointer or NULL.                       *)
SymtabObjfile(H, native, stale) ==
    IF native \in Objfiles /\ H.objfiles[native].alive THEN native ELSE stale

(* stscm_free_symtab_smob.                                                  *)
stscm_free_symtab_smob(H, self, stale) ==
    LET native == H.smobs[self].native
        objfile == IF native # NULL THEN SymtabObjfile(H, native, stale)
                   ELSE NULL
        H1 == gdbscm_remove_objfile_ref(H, objfile, stscm_objfile_data_key,
                                        self)
    IN  SetSmob(H1, self, "native", NULL)

(* syscm_free_symbol_smob.                                                  *)
syscm_free_symbol_smob(H, self, stale) ==
    LET native == H.smobs[self].native
        objfile == IF native # NULL /\ native # NoSymtab
                   THEN SymtabObjfile(H, native, stale)
                   ELSE NULL
        H1 == gdbscm_remove_objfile_ref(H, objfile, syscm_objfile_data_key,
                                        self)
    IN  SetSmob(H1, self, "native", NULL)

(* tyscm_make_type_smob.                                                    *)
tyscm_make_type_smob(H, g) ==
    gdbscm_init_chained_gsmob(H, g, tyscm_objfile_data_key)

(* TYPE_OBJFILE (t_smob->type): NULL for a type that belongs to no objfile; *)
(* read through a pointer into an objfile that was freed it yields STALE.   *)
TypeObjfile(H, native, stale) ==
    IF native = ArchOwned THEN NULL
    ELSE IF native \in Objfiles /\ H.objfiles[native].alive THEN native
    ELSE stale

(* tyscm_free_type_smob.                                                    *)
tyscm_free_type_smob(H, self, stale) ==
    LET native == H.smobs[self].native
        objfile == IF native # NULL THEN TypeObjfile(H, native, stale)
                   ELSE NULL
        H1 == gdbscm_remove_objfile_ref(H, objfile, tyscm_objfile_data_key,
                                        self)
    IN  SetSmob(H1, self, "native", NULL)

(* tyscm_scm_from_type_unsafe.  type: the objfile of the type, or           *)
(* ArchOwned.                                                               *)
tyscm_scm_from_type_unsafe(H, g, type, hookok) ==
    LET H1 == tyscm_make_type_smob(H, g)
        H2 == SetSmob(H1, g, "native", type)
    IN  IF ~hookok THEN [H |-> H2, threw |-> TRUE, seen |-> H2.smobs[g]]
        ELSE [H |-> gdbscm_add_objfile_ref(H2, TypeObjfile(H2, type, NULL),
                                           tyscm_objfile_data_key, g),
              threw |-> FALSE, seen |-> H2.smobs[g]]

(* The collector finalizing the smob in storage g: the free function of     *)
(* its type, then the storage is released.                                  *)
scm_gc_free(H, g, stale) ==
    LET H1 == IF H.smobs[g].kind = stscm_objfile_data_key
              THEN stscm_free_symtab_smob(H, g, stale)
              ELSE IF H.smobs[g].kind = tyscm_objfile_data_key
              THEN tyscm_free_type_smob(H, g, stale)
              ELSE syscm_free_symbol_smob(H, g, stale)
    IN  [H1 EXCEPT !.smobs[g].st = "freed", !.smobs[g].held = FALSE]

(* stscm_gsmob_from_symtab.                                                 *)
stscm_gsmob_from_symtab(H, g, symtab) ==
    LET H1 == stscm_make_symtab_smob(H, g)
        H2 == gdbscm_add_objfile_ref(H1, symtab, stscm_objfile_data_key, g)
    IN  SetSmob(H2, g, "native", symtab)

(* stscm_scm_from_symtab_unsafe.  hookok: *smob->scm* does not throw.       *)
stscm_scm_from_symtab_unsafe(H, g, symtab, hookok) ==
    LET H1 == stscm_make_symtab_smob(H, g)
        H2 == SetSmob(H1, g, "native", symtab)
    IN  IF ~hookok THEN [H |-> H2, threw |-> TRUE, seen |-> H2.smobs[g]]
        ELSE [H |-> gdbscm_add_objfile_ref(H2, symtab,
                                           stscm_objfile_data_key, g),
              threw |-> FALSE, seen |-> H2.smobs[g]]

(* syscm_scm_from_symbol_unsafe.  symbol: the objfile of the symbol's       *)
(* symtab, or NoSymtab.                                                     *)
syscm_scm_from_symbol_unsafe(H, g, symbol, hookok) ==
    LET H1 == syscm_make_symbol_smob(H, g)
    IN  IF ~hookok THEN [H |-> H1, threw |-> TRUE, seen |-> H1.smobs[g]]
        ELSE LET objfile == IF symbol # NoSymtab THEN symbol ELSE NULL
                 H2 == gdbscm_add_objfile_ref(H1, objfile,
                                              syscm_objfile_data_key, g)
             IN  [H |-> SetSmob(H2, g, "native", symbol), threw |-> FALSE,
                  seen |-> H1.smobs[g]]

(* stscm_scm_from_sal_unsafe (with stscm_gsmob_from_sal).  symtab:          *)
(* sal.symtab, NULL or a symtab of an objfile; g: the storage of the        *)
(* <gdb:symtab> made for it.  The <gdb:sal> smob itself is not chained.     *)
stscm_scm_from_sal_unsafe(H, g, symtab, hookok) ==
    LET H1 == IF symtab # NULL THEN stscm_gsmob_from_symtab(H, g, symtab)
              ELSE H
    IN  IF ~hookok
        THEN [H |-> IF symtab # NULL
                    THEN stscm_free_symtab_smob(H1, g, NULL) ELSE H1,
              threw |-> TRUE, seen |-> NoSmob]
        ELSE [H |-> H1, threw |-> FALSE, seen |-> NoSmob]

(* stscm_del_objfile_symtab stopping after the first smob of the list.      *)
del_objfile_symtab_first_only(H, st_smob) ==
    IF st_smob = NULL THEN H
    ELSE [H EXCEPT !.smobs[st_smob].native = NULL,
                   !.smobs[st_smob].next = NULL,
                   !.smobs[st_smob].prev = NULL]

(* stscm_del_objfile_symtab.                                                *)
RECURSIVE stscm_del_objfile_symtab(_, _)
stscm_del_objfile_symtab(H, st_smob) ==
    IF st_smob = NULL THEN H
    ELSE LET nxt == H.smobs[st_smob].next
         IN  stscm_del_objfile_symtab(
                 [H EXCEPT !.smobs[st_smob].native = NULL,
                           !.smobs[st_smob].next = NULL,
                           !.smobs[st_smob].prev = NULL], nxt)

(* syscm_del_objfile_symbols.                                               *)
RECURSIVE syscm_del_objfile_symbols(_, _)
syscm_del_objfile_symbols(H, s_smob) ==
    IF s_smob = NULL THEN H
    ELSE LET nxt == H.smobs[s_smob].next
         IN  syscm_del_objfile_symbols(
                 [H EXCEPT !.smobs[s_smob].native = NULL,
                           !.smobs[s_smob].next = NULL,
                           !.smobs[s_smob].prev = NULL], nxt)

(* save_objfile_types unlinking the smobs without copying their types.      *)
RECURSIVE save_objfile_types_without_copy(_, _)
save_objfile_types_without_copy(H, t_smob) ==
    IF t_smob = NULL THEN H
    ELSE LET nxt == H.smobs[t_smob].next
         IN  save_objfile_types_without_copy(
                 [H EXCEPT !.smobs[t_smob].next = NULL,
                           !.smobs[t_smob].prev = NULL], nxt)

(* save_objfile_types: copy_type_recursive gives each smob of the list a    *)
(* copy of its type that belongs to no objfile.                             *)
RECURSIVE save_objfile_types(_, _)
save_objfile_types(H, t_smob) ==
    IF t_smob = NULL THEN H
    ELSE LET nxt == H.smobs[t_smob].next
         IN  save_objfile_types(
                 [H EXCEPT !.smobs[t_smob].native = ArchOwned,
                           !.smobs[t_smob].next = NULL,
                           !.smobs[t_smob].prev = NULL], nxt)

(* An objfile being freed: the function registered for each key             *)
(* (scm-type.c:1487 to save, scm-symtab.c:768 and scm-symbol.c:778 to free) *)
(* runs on the key's datum, and the data go with the objfile.               *)
free_objfile(H, objfile) ==
    LET H0 == save_objfile_types(
                  H, H.objfiles[objfile].data[tyscm_objfile_data_key])
        H1 == stscm_del_objfile_symtab(
                  H0, H0.objfiles[objfile].data[stscm_objfile_data_key])
        H2 == syscm_del_objfile_symbols(
                  H1, H1.objfiles[objfile].data[syscm_objfile_data_key])
    IN  [H2 EXCEPT !.objfiles[objfile] = NoObjfile]

(* stscm_is_valid, syscm_is_valid and the procedures built on them.         *)
stscm_is_valid(st_smob) == st_smob.native # NULL
syscm_is_valid(s_smob) == s_smob.native # NULL
gdbscm_symtab_valid_p(st_smob) == stscm_is_valid(st_smob)
gdbscm_symbol_valid_p(s_smob) == syscm_is_valid(s_smob)

(* The key of the exception thrown by the gate of the accessors ("none"     *)
(* when the smob passes).                                                   *)
stscm_get_valid_symtab_smob_arg_unsafe(st_smob) ==
    IF ~stscm_is_valid(st_smob) THEN "gdb:invalid-object-error" ELSE "none"
syscm_get_valid_symbol_smob_arg_unsafe(s_smob) ==
    IF ~syscm_is_valid(s_smob) THEN "gdb:invalid-object-error" ELSE "none"

(* What a procedure applied to a smob did: the key of the exception it      *)
(* threw ("none" when it returned), what it returned or printed, and        *)
(* whether it read the native object behind the smob's pointer.             *)
Observation(key, val, deref) == [key |-> key, val |-> val, deref |-> deref]
NoObservation == [g |-> NULL, g2 |-> NULL, key |-> "none", val |-> "",
                  deref |-> FALSE]
scm_from_bool(b) == IF b THEN "#t" ELSE "#f"

(* A printer that reads the native object whatever the pointer is.          *)
print_smob_without_null_check(sm) == Observation("none", "name", TRUE)

(* stscm_print_symtab_smob, syscm_print_symbol_smob.                        *)
stscm_print_symtab_smob(st_smob) ==
    IF st_smob.native # NULL THEN Observation("none", "name", TRUE)
    ELSE Observation("none", "<invalid>", FALSE)
syscm_print_symbol_smob(s_smob) ==
    IF s_smob.native # NULL THEN Observation("none", "name", TRUE)
    ELSE Observation("none", "<invalid>", FALSE)

(* syscm_equal_p_symbol_smob: the two pointers are compared, not read.      *)
syscm_equal_p_symbol_smob(s1_smob, s2_smob) ==
    IF s1_smob.native = NULL \/ s2_smob.native = NULL
    THEN Observation("none", "#f", FALSE)
    ELSE Observation("none",
                     scm_from_bool(s1_smob.native = s2_smob.native), FALSE)

(* equal? of Guile on two smobs: the same object is equal to itself, smobs  *)
(* of different types are not equal, and two smobs of one type are compared *)
(* by the equalp function of the type, which only <gdb:symbol> has          *)
(* (scm-symbol.c:767).                                                      *)
scm_equal_p(sm, g1, g2) ==
    IF g1 = g2 THEN Observation("none", "#t", FALSE)
    ELSE IF sm[g1].kind # sm[g2].kind THEN Observation("none", "#f", FALSE)
    ELSE IF sm[g1].kind = syscm_objfile_data_key
    THEN syscm_equal_p_symbol_smob(sm[g1], sm[g2])
    ELSE Observation("none", "#f", FALSE)

(* symtab-valid?, symbol-valid? as procedures.                              *)
valid_p(sm) ==
    IF sm.kind = stscm_objfile_data_key
    THEN Observation("none", scm_from_bool(gdbscm_symtab_valid_p(sm)), FALSE)
    ELSE Observation("none", scm_from_bool(gdbscm_symbol_valid_p(sm)), FALSE)

(* An accessor that reads the native object: symtab-filename and the other  *)
(* gdbscm_symtab_* procedures, symbol-name and the other gdbscm_symbol_*    *)
(* procedures.  Each goes through the gate first.                           *)
gdbscm_symtab_filename(st_smob) ==
    LET gate == stscm_get_valid_symtab_smob_arg_unsafe(st_smob)
    IN  IF gate # "none" THEN Observation(gate, "", FALSE)
        ELSE Observation("none", "name", TRUE)
gdbscm_symbol_name(s_smob) ==
    LET gate == syscm_get_valid_symbol_smob_arg_unsafe(s_smob)
    IN  IF gate # "none" THEN Observation(gate, "", FALSE)
        ELSE Observation("none", "name", TRUE)

(* The smobs of the list that starts at smob g, following next.             *)
RECURSIVE ChainFrom(_, _, _)
ChainFrom(sm, g, seen) ==
    IF g = NULL \/ g \in seen THEN seen
    ELSE ChainFrom(sm, sm[g].next, seen \cup {g})

Chain(sm, ob, objfile, key) == ChainFrom(sm, ob[objfile].data[key], {})

----------------------------------------------------------------------------
(* Iterators and <gdb:exception> objects (scm-iterator.c, scm-exception.c). *)
(* A Scheme value is its type t, a name k and a number n.                   *)

MaxCount == 3           \* largest object and progress of an iterator

Val(t, k, n) == [t |-> t, k |-> k, n |-> n]
scm_from_int(n) == Val("integer", "", n)
Proc(k) == Val("procedure", k, 0)
SCM_UNSPECIFIED == Val("unspecified", "", 0)
SCM_BOOL_F == Val("boolean", "#f", 0)
gdbscm_is_false(scm) == scm = SCM_BOOL_F
EndMarker == Val("end-of-iteration", "", 0)
IteratorSmob == Val("gdb:iterator", "", 0)

(* gdbscm_make_exception: the <gdb:exception> smob with the given key.      *)
gdbscm_make_exception(key) == Val("gdb:exception", key, 0)

(* gdbscm_is_exception.                                                     *)
gdbscm_is_exception(scm) == scm.t = "gdb:exception"

(* gdbscm_is_procedure.                                                     *)
gdbscm_is_procedure(scm) == scm.t = "procedure"

(* The outcome of a procedure: it returns val or throws key; it.progress    *)
(* is what the call left in the iterator.                                   *)
Return(it, val) == [it |-> it, threw |-> FALSE, key |-> "", val |-> val]
Throw(it, key) ==
    [it |-> it, threw |-> TRUE, key |-> key, val |-> SCM_UNSPECIFIED]

NoIter == [made |-> FALSE, object |-> scm_from_int(0), progress |-> scm_from_int(0),
           next_x |-> scm_from_int(0)]

(* A <gdb:type> smob is its type: the type's code and its number of fields  *)
(* (TYPE_NFIELDS); a <gdb:field> smob is the number of the field.           *)
TypeSmob(code, nfields) == Val("gdb:type", code, nfields)
tyscm_is_type(scm) == scm.t = "gdb:type"
TYPE_NFIELDS(type) == type.n
tyscm_make_field_smob(type_scm, field_num) == Val("gdb:field", "", field_num)
tyscm_next_field_x_scm == Proc("type-next-field!")

(* scm_is_signed_integer (val, min, max).                                   *)
scm_is_signed_integer(val, min, max) ==
    val.t = "integer" /\ min <= val.n /\ val.n <= max

(* gdbscm_type_next_field_x with the progress left alone.                   *)
next_field_without_advance(it) ==
    IF it.progress.n < TYPE_NFIELDS(it.object)
    THEN Return(it, tyscm_make_field_smob(it.object, it.progress.n))
    ELSE Return(it, SCM_BOOL_F)

(* gdbscm_type_next_field_x, applied to the iterator by iterator-next!.     *)
gdbscm_type_next_field_x(it) ==
    IF ~tyscm_is_type(it.object) THEN Throw(it, "wrong-type-arg")
    ELSE IF ~scm_is_signed_integer(it.progress, 0, TYPE_NFIELDS(it.object))
    THEN Throw(it, "wrong-type-arg")
    ELSE IF it.progress.n < TYPE_NFIELDS(it.object)
    THEN Return([it EXCEPT !.progress = scm_from_int(it.progress.n + 1)],
                tyscm_make_field_smob(it.object, it.progress.n))
    ELSE Return(it, SCM_BOOL_F)

(* "set guile print-stack" choices (guile.c).                               *)
gdbscm_print_excp_none == "none"
gdbscm_print_excp_full == "full"
gdbscm_print_excp_message == "message"
guile_print_excp_enums ==
    {gdbscm_print_excp_none, gdbscm_print_excp_full, gdbscm_print_excp_message}

(* Printing an exception (scm-exception.c).  The exception is its key and   *)
(* the list of its args; a stack is a name, or "#t" or "#f"; what a call    *)
(* writes is the sequence of the parts it writes.                           *)
exscm_with_stack_error_symbol == "gdb:with-stack"
gdbscm_make_exception_with_stack(key, args, stack) ==
    [key |-> exscm_with_stack_error_symbol, args |-> <<key, stack>> \o args]
scm_stack_ref(stack) == <<"frame", stack>>
Written(what, stack, frame, key, args) ==
    [what |-> what, stack |-> stack, frame |-> frame, key |-> key,
     args |-> args]
Backtrace(stack) == Written("backtrace", stack, <<>>, "", <<>>)

(* gdbscm_print_exception_message.  found: %print-exception is there.       *)
gdbscm_print_exception_message(frame, key, args, found) ==
    IF ~found THEN <<Written("diagnostic", "#f", <<>>, "", <<>>)>>
    ELSE <<Written("message", "#f", frame, key, args)>>

(* gdbscm_print_exception_with_args with the backtrace written in every     *)
(* mode but none.                                                           *)
print_backtrace_in_every_mode(mode, stack, key, args, found) ==
    IF mode = gdbscm_print_excp_none THEN <<>>
    ELSE <<Backtrace(stack)>>
            \o gdbscm_print_exception_message(<<>>, key, args, found)

(* gdbscm_print_exception_with_args.  mode is gdbscm_print_excp.            *)
gdbscm_print_exception_with_args(mode, stack, key, args, found) ==
    IF mode = gdbscm_print_excp_none THEN <<>>
    ELSE LET unwrap == stack # "#f" /\ key = exscm_with_stack_error_symbol
             key1 == IF unwrap THEN args[1] ELSE key
             stack1 == IF unwrap THEN args[2]
                       ELSE IF stack = "#t" THEN "#f" ELSE stack
             args1 == IF unwrap THEN SubSeq(args, 3, Len(args)) ELSE args
             frame == IF unwrap THEN scm_stack_ref(stack1) ELSE <<>>
         IN  (IF mode = gdbscm_print_excp_full /\ stack1 # "#f"
              THEN <<Backtrace(stack1)>> ELSE <<>>)
                \o gdbscm_print_exception_message(frame, key1, args1, found)

(* gdbscm_print_exception.                                                  *)
gdbscm_print_exception(mode, exception, found) ==
    gdbscm_print_exception_with_args(mode, "#t", exception.key,
                                     exception.args, found)

(* What the last print was given and what it wrote.                         *)
Printed(stack, key, args, found, written) ==
    [stack |-> stack, key |-> key, args |-> args, found |-> found,
     written |-> written]
NoPrinted == Printed("#f", "", <<>>, FALSE, <<>>)

(* The last iterator procedure and its outcome.  reached, calls and         *)
(* only_next record how the iterator was driven: whether the last procedure *)
(* was an iterator-next! that reached the next! procedure, the number of    *)
(* those so far, and whether nothing else has changed the iterator.         *)
NoRes ==
    [op |-> "none", threw |-> FALSE, key |-> "", val |-> SCM_UNSPECIFIED,
     reached |-> FALSE, calls |-> 0, only_next |-> TRUE, out |-> NoPrinted]

(* The next! procedures a script passes to make-iterator: "count" returns   *)
(* progress and advances it until it reaches object, then the end marker;   *)
(* "throw" throws; applying anything else is a wrong-type-arg error.        *)
(* make-field-iterator passes type-next-field!.                             *)
scm_call_1(proc, it) ==
    IF ~gdbscm_is_procedure(proc) THEN Throw(it, "wrong-type-arg")
    ELSE IF proc = tyscm_next_field_x_scm THEN gdbscm_type_next_field_x(it)
    ELSE IF proc.k = "count"
    THEN IF it.progress.n < it.object.n
         THEN Return([it EXCEPT !.progress = scm_from_int(it.progress.n + 1)],
                     it.progress)
         ELSE Return(it, EndMarker)
    ELSE Throw(it, "misc-error")

(* gdbscm_safe_call_1: the call's result, or a <gdb:exception> object if    *)
(* the call throws (scm-iterator.c:180-182, scm-ports.c:382-387).           *)
gdbscm_safe_call_1(proc, it) ==
    LET r == scm_call_1(proc, it)
    IN  IF r.threw THEN Return(r.it, gdbscm_make_exception(r.key)) ELSE r

(* itscm_get_iterator_arg_unsafe: the key thrown ("" when SELF passes).     *)
itscm_get_iterator_arg_unsafe(self) ==
    IF self.t # "gdb:iterator" THEN "wrong-type-arg" ELSE ""

(* gdbscm_make_iterator.  hookok: *smob->scm* does not throw.               *)
gdbscm_make_iterator(object, progress, next, hookok) ==
    IF ~gdbscm_is_procedure(next) THEN Throw(NoIter, "wrong-type-arg")
    ELSE IF ~hookok THEN Throw(NoIter, "misc-error")
    ELSE Return([made |-> TRUE, object |-> object, progress |-> progress,
                 next_x |-> next], IteratorSmob)

NoType == Val("none", "", 0)

(* tyscm_get_composite: typedefs are stripped; NULL if what is left is not  *)
(* a struct, union or enum.                                                 *)
tyscm_get_composite(type) ==
    IF type.k = "typedef" THEN TypeSmob("struct", TYPE_NFIELDS(type))
    ELSE IF type.k = "struct" THEN type
    ELSE NoType

(* gdbscm_make_field_iterator.  hookok1: *smob->scm* does not throw for the *)
(* type smob of the underlying type; hookok2: nor for the iterator.         *)
gdbscm_make_field_iterator(self, hookok1, hookok2) ==
    IF ~tyscm_is_type(self) THEN Throw(NoIter, "wrong-type-arg")
    ELSE LET containing_type == tyscm_get_composite(self)
         IN  IF containing_type = NoType THEN Throw(NoIter, "out-of-range")
             ELSE IF containing_type # self /\ ~hookok1
             THEN Throw(NoIter, "misc-error")
             ELSE gdbscm_make_iterator(containing_type, scm_from_int(0),
                                       tyscm_next_field_x_scm, hookok2)

(* gdbscm_iterator_progress.                                                *)
gdbscm_iterator_progress(self, it) ==
    IF itscm_get_iterator_arg_unsafe(self) # ""
    THEN Throw(it, itscm_get_iterator_arg_unsafe(self))
    ELSE Return(it, it.progress)

(* gdbscm_set_iterator_progress_x.                                          *)
gdbscm_set_iterator_progress_x(self, it, value) ==
    IF itscm_get_iterator_arg_unsafe(self) # ""
    THEN Throw(it, itscm_get_iterator_arg_unsafe(self))
    ELSE Return([it EXCEPT !.progress = value], SCM_UNSPECIFIED)

(* gdbscm_iterator_next_x.                                                  *)
gdbscm_iterator_next_x(self, it) ==
    IF itscm_get_iterator_arg_unsafe(self) # ""
    THEN Throw(it, itscm_get_iterator_arg_unsafe(self))
    ELSE gdbscm_safe_call_1(it.next_x, it)

(* %with-gdb-output-to-port's use of a safe call (scm-ports.c:382-387):     *)
(* the result is checked and an exception object is thrown.                 *)
ioscm_with_output_to_port_worker(thunk, it) ==
    LET result == gdbscm_safe_call_1(thunk, it)
    IN  IF gdbscm_is_exception(result.val) THEN Throw(result.it, result.val.k)
        ELSE result

----------------------------------------------------------------------------
(* The conversion hooks (scm-smob.c).  A smob is Val(tag, "", n); the       *)
(* object a script wraps a smob in is Val("wrapper", tag, n); the args of   *)
(* a <gdb:exception> are the number n of its value.                         *)

Smob(tag, n) == Val(tag, "", n)
Wrapper(smob) == Val("wrapper", smob.t, smob.n)
Exception(key, args) == Val("gdb:exception", key, args)

(* The tags given out by gdbscm_make_smob_type; a tag of zero stands for    *)
(* any of them.                                                             *)
symtab_smob_tag == "gdb:symtab"
symbol_smob_tag == "gdb:symbol"
exception_smob_tag == "gdb:exception"
registered_gsmobs == {symtab_smob_tag, symbol_smob_tag, exception_smob_tag}
AnyTag == "0"

(* gdbscm_is_gsmob, SCM_SMOB_PREDICATE.                                     *)
gdbscm_is_gsmob(scm) == scm.t \in registered_gsmobs
SCM_SMOB_PREDICATE(tag, scm) == scm.t = tag

(* The outcome of a conversion: it returns val or throws key with args;     *)
(* called tells whether the hook was applied.                               *)
ConvReturn(val, called) ==
    [threw |-> FALSE, key |-> "", args |-> 0, val |-> val, called |-> called]
ConvThrow(key, args, called) ==
    [threw |-> TRUE, key |-> key, args |-> args, val |-> SCM_UNSPECIFIED,
     called |-> called]

(* The values a script stores in the hook variables, and what applying      *)
(* them does: "wrap" wraps a symtab or symbol smob, "unwrap" takes the      *)
(* smob out of a wrapper and answers #f to anything else, "swap" exchanges  *)
(* the symtab smobs 1 and 2, "zero" returns 0, "raise" returns a            *)
(* <gdb:exception> object, "throw" throws; a value that is not a procedure  *)
(* cannot be applied.                                                       *)
HookCall(proc, scm) ==
    IF ~gdbscm_is_procedure(proc) THEN ConvThrow("wrong-type-arg", 1, TRUE)
    ELSE IF proc.k = "wrap"
    THEN ConvReturn(IF scm.t \in {symtab_smob_tag, symbol_smob_tag}
                    THEN Wrapper(scm) ELSE scm, TRUE)
    ELSE IF proc.k = "unwrap"
    THEN ConvReturn(IF scm.t = "wrapper" THEN Smob(scm.k, scm.n)
                    ELSE SCM_BOOL_F, TRUE)
    ELSE IF proc.k = "swap"
    THEN ConvReturn(IF scm.t = symtab_smob_tag THEN Smob(scm.t, 3 - scm.n)
                    ELSE scm, TRUE)
    ELSE IF proc.k = "zero" THEN ConvReturn(scm_from_int(0), TRUE)
    ELSE IF proc.k = "raise" THEN ConvReturn(Exception("gdb:error", 3), TRUE)
    ELSE ConvThrow("misc-error", 2, TRUE)

(* gdbscm_safe_call_1 applied to a hook: the result of the call, or the     *)
(* <gdb:exception> object made from what it threw.                          *)
gdbscm_safe_call_1_hook(proc, scm) ==
    LET r == HookCall(proc, scm)
    IN  IF r.threw THEN Exception(r.key, r.args) ELSE r.val

(* gdbscm_throw losing the args of the exception.                           *)
throw_without_args(exception, called) == ConvThrow(exception.k, 0, called)

(* gdbscm_throw: scm_throw with the key and the args of the exception.      *)
gdbscm_throw(exception, called) ==
    ConvThrow(exception.k, exception.n, called)

(* gdbscm_scm_from_gsmob_safe.  proc: the value of *smob->scm*.             *)
gdbscm_scm_from_gsmob_safe(proc, smob) ==
    IF gdbscm_is_false(proc) THEN ConvReturn(smob, FALSE)
    ELSE ConvReturn(gdbscm_safe_call_1_hook(proc, smob), TRUE)

(* gdbscm_scm_from_gsmob_unsafe.                                            *)
gdbscm_scm_from_gsmob_unsafe(proc, smob) ==
    LET result == gdbscm_scm_from_gsmob_safe(proc, smob)
    IN  IF gdbscm_is_exception(result.val)
        THEN gdbscm_throw(result.val, result.called)
        ELSE result

(* gdbscm_make_out_of_range_error as used by gdbscm_scm_to_gsmob_safe.      *)
gdbscm_make_out_of_range_error == Exception("out-of-range", 4)

(* gdbscm_scm_to_gsmob_safe passing on whatever the hook returned.          *)
to_gsmob_safe_without_result_check(proc, scm, tag) ==
    IF gdbscm_is_false(proc) THEN ConvReturn(SCM_BOOL_F, FALSE)
    ELSE ConvReturn(gdbscm_safe_call_1_hook(proc, scm), TRUE)

(* gdbscm_scm_to_gsmob_safe applying the hook before looking at the tag.    *)
to_gsmob_safe_hook_first(proc, scm, tag) ==
    IF gdbscm_is_false(proc)
    THEN ConvReturn(IF SCM_SMOB_PREDICATE(tag, scm) THEN scm ELSE SCM_BOOL_F,
                    FALSE)
    ELSE LET result == gdbscm_safe_call_1_hook(proc, scm)
         IN  IF gdbscm_is_false(result) \/ gdbscm_is_exception(result)
                \/ SCM_SMOB_PREDICATE(tag, result)
             THEN ConvReturn(result, TRUE)
             ELSE ConvReturn(gdbscm_make_out_of_range_error, TRUE)

(* gdbscm_scm_to_gsmob_safe.  proc: the value of *scm->smob*.               *)
gdbscm_scm_to_gsmob_safe(proc, scm, tag) ==
    LET matches(v) == IF tag # AnyTag THEN SCM_SMOB_PREDICATE(tag, v)
                      ELSE gdbscm_is_gsmob(v)
    IN  IF matches(scm) THEN ConvReturn(scm, FALSE)
        ELSE IF gdbscm_is_false(proc) THEN ConvReturn(SCM_BOOL_F, FALSE)
        ELSE LET result == gdbscm_safe_call_1_hook(proc, scm)
             IN  IF gdbscm_is_false(result) THEN ConvReturn(SCM_BOOL_F, TRUE)
                 ELSE IF gdbscm_is_exception(result)
                 THEN ConvReturn(result, TRUE)
                 ELSE IF matches(result) THEN ConvReturn(result, TRUE)
                 ELSE ConvReturn(gdbscm_make_out_of_range_error, TRUE)

(* gdbscm_scm_to_gsmob_unsafe.                                              *)
gdbscm_scm_to_gsmob_unsafe(proc, scm, tag) ==
    LET result == gdbscm_scm_to_gsmob_safe(proc, scm, tag)
    IN  IF gdbscm_is_exception(result.val)
        THEN gdbscm_throw(result.val, result.called)
        ELSE result

----------------------------------------------------------------------------
(* gdb exceptions and their translation (scm-exception.c), and procedures   *)
(* that call into gdb (scm-type.c, scm-frame.c, scm-symtab.c).              *)

SIGINT == 2

(* A struct gdb_exception: what a TRY_CATCH block leaves in EXCEPT, and     *)
(* what a call into gdb raises.  NoException is the value after a block     *)
(* that raised nothing (reason 0).                                          *)
GdbException(reason, error, message) ==
    [reason |-> reason, error |-> error, message |-> message]
NoException == GdbException("0", "GDB_NO_ERROR", "")
Raised(except) == except.reason # "0"       \* except.reason < 0

(* A Scheme list, or #f, as the DATA of an error.                           *)
ScmList(items) == [false |-> FALSE, items |-> items]
ScmFalse == [false |-> TRUE, items |-> <<>>]

(* gdbscm_make_error: the <gdb:exception> with KEY and the four args        *)
(* (subr message args data); a NULL subr becomes #f.                        *)
gdbscm_make_error(key, subr, message, args, data) ==
    [key |-> key, subr |-> subr, message |-> message, args |-> args,
     data |-> data]
NoError == gdbscm_make_error("", "#f", "", <<>>, ScmFalse)

(* The translation looking at the error code before the reason.             *)
from_gdb_exception_error_first(exception) ==
    IF exception.error = "MEMORY_ERROR"
    THEN gdbscm_make_error("gdb:memory-error", "#f", "~A",
                           <<exception.message>>, ScmFalse)
    ELSE IF exception.reason = "RETURN_QUIT"
    THEN gdbscm_make_error("signal", "#f", "User interrupt", <<>>,
                           ScmList(<<SIGINT>>))
    ELSE gdbscm_make_error("gdb:error", "#f", "~A", <<exception.message>>,
                           ScmFalse)

(* gdbscm_scm_from_gdb_exception.                                           *)
gdbscm_scm_from_gdb_exception(exception) ==
    IF exception.reason = "RETURN_QUIT"
    THEN gdbscm_make_error("signal", "#f", "User interrupt", <<>>,
                           ScmList(<<SIGINT>>))
    ELSE LET key == IF exception.error = "MEMORY_ERROR"
                    THEN "gdb:memory-error" ELSE "gdb:error"
         IN  gdbscm_make_error(key, "#f", "~A", <<exception.message>>,
                               ScmFalse)

(* How a procedure that calls into gdb ends: it returns a value, it throws  *)
(* a Scheme exception, or a gdb exception raised outside every TRY_CATCH    *)
(* block leaves it as a gdb non-local exit.                                 *)
HostReturn(val) == [exit |-> "return", val |-> val, exc |-> NoError]
HostThrow(exc) == [exit |-> "throw", val |-> "", exc |-> exc]
HostExit(except) == [exit |-> "gdb", val |-> "", exc |-> NoError]

(* gdbscm_throw_gdb_exception, and GDBSCM_HANDLE_GDB_EXCEPTION followed by  *)
(* the rest of the procedure.                                               *)
gdbscm_throw_gdb_exception(exception) ==
    HostThrow(gdbscm_scm_from_gdb_exception(exception))
GDBSCM_HANDLE_GDB_EXCEPTION(except, rest) ==
    IF Raised(except) THEN gdbscm_throw_gdb_exception(except) ELSE rest

(* A call into gdb made outside every TRY_CATCH block.                      *)
Unprotected(except, rest) ==
    IF Raised(except) THEN HostExit(except) ELSE rest

(* gdbscm_type_sizeof.  check_typedef: what the call raises.                *)
gdbscm_type_sizeof(check_typedef) == HostReturn("integer")

(* gdbscm_type_equal_p.  types_deeply_equal: what the call raises.         *)
gdbscm_type_equal_p(types_deeply_equal) ==
    GDBSCM_HANDLE_GDB_EXCEPTION(types_deeply_equal, HostReturn("boolean"))

(* tyscm_lookup_typename: the type found, or NULL.  lookup: what the        *)
(* lookup raises; found: whether it finds the type when it raises nothing.  *)
tyscm_lookup_typename(lookup, found) ==
    IF Raised(lookup) THEN NULL ELSE IF found THEN 1 ELSE NULL

(* gdbscm_lookup_type.                                                      *)
gdbscm_lookup_type(lookup, found) ==
    LET type == tyscm_lookup_typename(lookup, found)
    IN  IF type # NULL THEN HostReturn("gdb:type") ELSE HostReturn("#f")

(* gdbscm_frame_pc.  find: what finding the frame raises; found: whether    *)
(* the frame exists; get_frame_pc: what that call raises.                   *)
gdbscm_frame_pc(find, found, get_frame_pc) ==
    LET except == IF Raised(find) THEN find
                  ELSE IF found THEN get_frame_pc ELSE NoException
    IN  GDBSCM_HANDLE_GDB_EXCEPTION(
            except,
            IF ~found
            THEN HostThrow(gdbscm_make_error("gdb:invalid-object-error",
                                             "frame-pc", "Frame is invalid",
                                             <<>>, ScmFalse))
            ELSE HostReturn("integer"))

(* gdbscm_frame_unwind_stop_reason.                                         *)
gdbscm_frame_unwind_stop_reason(find, found, get_frame_unwind_stop_reason) ==
    GDBSCM_HANDLE_GDB_EXCEPTION(
        find,
        IF ~found
        THEN HostThrow(gdbscm_make_error("gdb:invalid-object-error",
                                         "frame-unwind-stop-reason",
                                         "Frame is invalid", <<>>, ScmFalse))
        ELSE Unprotected(get_frame_unwind_stop_reason,
                         HostReturn("integer")))

(* gdbscm_symtab_fullname on a valid symtab.                                *)
gdbscm_symtab_fullname(symtab_to_fullname) ==
    Unprotected(symtab_to_fullname, HostReturn("string"))

(* The handles of the conversions and of the gsmob accessors.               *)
SmobChoices ==
    {Smob(symtab_smob_tag, 1), Smob(symtab_smob_tag, 2),
     Smob(symbol_smob_tag, 1)}

(* gdb_smob.aux.  The store maps each handle to its aux slot, Unmade before *)
(* the handle is constructed; Elsewhere is the word that a pointer taken    *)
(* from an object that is not a smob leads to, holding Junk at first.       *)
Unmade == Val("unmade", "", 0)
Junk == Val("junk", "", 0)
Elsewhere == Val("elsewhere", "", 0)
AuxHandles == SmobChoices \cup {Exception("gdb:error", 3)}
AuxCells == AuxHandles \cup {Elsewhere}
NoAuxStore == [c \in AuxCells |-> IF c = Elsewhere THEN Junk ELSE Unmade]

(* gdbscm_init_gsmob: base->aux = SCM_BOOL_F.                               *)
gdbscm_init_gsmob(store, base) == [store EXCEPT ![base] = SCM_BOOL_F]

(* SCM_SMOB_DATA (self) taken as a gdb_smob: the data of a smob is its own; *)
(* self that is not a smob has no smob data, and the pointer read from it   *)
(* leads to stray, one of the cells.                                        *)
SCM_SMOB_DATA(self, stray) == IF gdbscm_is_gsmob(self) THEN self ELSE stray

(* The gdb_smob that gsmob-aux and set-gsmob-aux! work on: both convert     *)
(* self to smob and then take SCM_SMOB_DATA (self).                         *)
gsmob_base(self, smob, stray) == SCM_SMOB_DATA(self, stray)

(* gsscm_get_gsmob_arg_unsafe.  proc: the value of *scm->smob*.             *)
gsscm_get_gsmob_arg_unsafe(proc, self) ==
    LET gsmob == gdbscm_scm_to_gsmob_safe(proc, self, AnyTag)
    IN  IF gdbscm_is_exception(gsmob.val)
        THEN gdbscm_throw(gsmob.val, gsmob.called)
        ELSE IF ~gdbscm_is_gsmob(gsmob.val)
        THEN ConvThrow("wrong-type-arg", 1, gsmob.called)
        ELSE gsmob

(* The outcome of an accessor: what it returns or throws, and the store.    *)
AuxOutcome(out, store) == [out |-> out, store |-> store]

(* gdbscm_gsmob_aux.                                                        *)
gdbscm_gsmob_aux(proc, store, self, stray) ==
    LET smob == gsscm_get_gsmob_arg_unsafe(proc, self)
    IN  IF smob.threw THEN AuxOutcome(smob, store)
        ELSE LET base == gsmob_base(self, smob.val, stray)
             IN  AuxOutcome(ConvReturn(store[base], smob.called), store)

(* gdbscm_set_gsmob_aux_x.                                                  *)
gdbscm_set_gsmob_aux_x(proc, store, self, aux, stray) ==
    LET smob == gsscm_get_gsmob_arg_unsafe(proc, self)
    IN  IF smob.threw THEN AuxOutcome(smob, store)
        ELSE LET base == gsmob_base(self, smob.val, stray)
             IN  AuxOutcome(ConvReturn(SCM_UNSPECIFIED, smob.called),
                            [store EXCEPT ![base] = aux])

NoConv == [from_hook |-> SCM_BOOL_F, to_hook |-> SCM_BOOL_F, op |-> "none",
           arg |-> SCM_BOOL_F, tag |-> AnyTag, mid |-> SCM_BOOL_F,
           out |-> ConvReturn(SCM_UNSPECIFIED, FALSE),
           raised |-> <<>>, host |-> HostReturn(""),
           aux |-> NoAuxStore, x |-> SCM_BOOL_F]

----------------------------------------------------------------------------
(* The memory-port specification: one port, from open-memory to close.      *)

StartChoices == {0, ScenStart, AllOnes - 1, AllOnes}
SizeChoices ==
    {NoSize, 0, 1, ScenSize, MaxSize, AllOnes, Wrap - ScenStart}
ModeChoices == {"r", "r+", "x"}
OffsetChoices == {0 - 1, 0, 1, MaxSize}
WhenceChoices == {SEEK_SET, SEEK_CUR, SEEK_END}
ReadBufSizeChoices == {0, 1, max_memory_port_buf_size + 1}
WriteBufSizeChoices == {0, max_memory_port_buf_size,
                        max_memory_port_buf_size + 1}
(* The bytes of a write of k bytes are 1, 2, ..., k; the i-th byte left in  *)
(* the write buffer is 64 + i; the byte pushed back is 32.                  *)
Data(k) == [i \in 1..k |-> i]
WriteData == {Data(k) : k \in 0..(MaxSize + 1)}
PutBytes(p) == {65 + Len(p.write_buf)}
UngetBytes == {32}

(* The size of the read buffer, in use or set aside for the putback buffer. *)
ReadCapacity(p) ==
    IF p.in_putback THEN p.saved_read_buf_size ELSE p.pt_read_buf_size

(* Positions explored lie within MaxPos of either end of the range.         *)
Bounded(p) == p.current <= MaxPos \/ p.current + MaxPos >= p.size

Last(op, a, n, s, o) ==
    [op |-> op, a |-> a, n |-> n, s |-> s,
     err |-> o.err, ret |-> o.ret, io |-> o.io, fresh |-> FALSE]

(* The operations of a plain buffered read: since the port was opened it    *)
(* has seen nothing but these, and none of them threw.                      *)
ReadOps == {"fill", "get", "set_read_buffer_size"}
StaysFresh(op, o) ==
    last.fresh /\ op \in ReadOps /\ o.err \in {NoErr, EofMark}

Apply(op, a, n, o, sc) ==
    /\ Bounded(o.p)
    /\ port' = o.p
    /\ last' = [Last(op, a, n, 0, o) EXCEPT !.fresh = StaysFresh(op, o)]
    /\ scen' = sc
    /\ UNCHANGED <<chainVars, iterVars, convVars>>

PortInit ==
    /\ port = NoPort
    /\ last = Last("none", "", 0, 0, Ok(NoPort))
    /\ scen = 0
    /\ smobs = [g \in 1..MaxSlots |-> NoSmob]
    /\ objfiles = [o \in 1..MaxObjfiles |-> LiveObjfile]
    /\ made = 0
    /\ clast = [op |-> "none", threw |-> FALSE, members |-> {},
                types |-> {}, obs |-> NoObservation, seen |-> NoSmob]
    /\ iter = NoIter
    /\ res = NoRes
    /\ print_excp = gdbscm_print_excp_message
    /\ conv = NoConv

OpenMemory(mode, start, size) ==
    /\ port.state = "none"
    /\ LET r == gdbscm_open_memory(mode, start, size)
       IN /\ port' = r.p
          /\ last' = [Last("open", mode, size, start,
                           Out(r.p, <<>>, r.err, 0))
                         EXCEPT !.fresh = (r.err = NoErr)]
          /\ scen' = IF r.err = NoErr /\ mode = "r+" /\ start = ScenStart
                        /\ size = ScenSize
                     THEN 1 ELSE 0
          /\ UNCHANGED <<chainVars, iterVars, convVars>>

Write(data, wok1, wok2) ==
    /\ port.state = "open" /\ CanWrite(port)
    /\ LET o == scm_c_write(port, data, wok1, wok2)
       IN Apply("write", "", Len(data), o,
                IF scen = 1 /\ Len(data) = 3 /\ o.err = NoErr THEN 2
                ELSE IF scen = 3 /\ Len(data) = 2 THEN 4 ELSE 0)

BufferedPut(b) ==
    /\ port.state = "open" /\ CanWrite(port)
    /\ port.write_buf = <<>> \/ port.rw_active = SCM_PORT_WRITE
    /\ Len(port.write_buf) < Min(MaxPending, port.pt_write_buf_size)
    /\ Apply("put", "", 0, scm_buffered_put(port, b), 0)

Flush(wok) ==
    /\ port.state = "open" /\ CanWrite(port)
    /\ Apply("flush", "", 0,
             gdbscm_memory_port_flush(port, wok), 0)

FillInput(wok, rok) ==
    /\ port.state = "open" /\ CanRead(port)
    /\ port.read_pos = Len(port.read_buf)
    /\ ReadCapacity(port) <= MaxPos \/ port.size - port.current <= MaxPos
    /\ Apply("fill", "", 0, scm_fill_input(port, wok, rok), 0)

GetByte ==
    /\ port.state = "open" /\ CanRead(port)
    /\ port.rw_active = SCM_PORT_READ
    /\ port.read_pos < Len(port.read_buf)
    /\ Apply("get", "", 0, scm_get_byte(port), 0)

UngetByte(b) ==
    /\ port.state = "open" /\ CanRead(port)
    /\ port.write_buf = <<>>
    /\ (IF port.in_putback THEN Len(port.read_buf) - port.read_pos ELSE 0)
          < MaxPutback
    /\ Apply("unget", "", 0, scm_unget_byte(port, b), 0)

EndInput ==
    /\ port.state = "open"
    /\ port.rw_active = SCM_PORT_READ
    /\ Apply("end_input", "", 0, scm_end_input(port), 0)

Seek(offset, whence, wok) ==
    /\ port.state = "open"
    /\ Apply("seek", whence, offset,
             gdbscm_memory_port_seek(port, offset, whence, wok),
             IF scen = 2 /\ offset = 0 /\ whence = SEEK_CUR THEN 3 ELSE 0)

SetReadBufferSize(size) ==
    /\ port.state = "open"
    /\ Apply("set_read_buffer_size", "", size,
             gdbscm_set_memory_port_read_buffer_size_x(port, size), 0)

SetWriteBufferSize(size) ==
    /\ port.state = "open"
    /\ Apply("set_write_buffer_size", "", size,
             gdbscm_set_memory_port_write_buffer_size_x(port, size), 0)

Close(wok) ==
    /\ port.state = "open"
    /\ Apply("close", "", 0, gdbscm_memory_port_close(port, wok), 0)

(* The outcomes of target_write_memory that matter: it is called by a flush *)
(* only when bytes are pending.                                             *)
FlushOutcomes == IF port.write_buf = <<>> THEN {TRUE} ELSE BOOLEAN

PortNext ==
    \/ \E mode \in ModeChoices, start \in StartChoices, size \in SizeChoices :
          OpenMemory(mode, start, size)
    \/ \E data \in WriteData, wok1 \in FlushOutcomes, wok2 \in BOOLEAN :
          Write(data, wok1, wok2)
    \/ \E b \in PutBytes(port) : BufferedPut(b)
    \/ \E wok \in FlushOutcomes : Flush(wok)
    \/ \E wok \in FlushOutcomes, rok \in BOOLEAN : FillInput(wok, rok)
    \/ GetByte
    \/ \E b \in UngetBytes : UngetByte(b)
    \/ EndInput
    \/ \E offset \in OffsetChoices, whence \in WhenceChoices,
          wok \in FlushOutcomes :
          Seek(offset, whence, wok)
    \/ \E size \in ReadBufSizeChoices : SetReadBufferSize(size)
    \/ \E size \in WriteBufSizeChoices : SetWriteBufferSize(size)
    \/ \E wok \in FlushOutcomes : Close(wok)

SpecPort == PortInit /\ [][PortNext]_vars

----------------------------------------------------------------------------
(* The chained-smob specification: smobs are made for symtabs, symbols and  *)
(* sals of the objfiles, collected, and the objfiles are freed.             *)

Heap == [smobs |-> smobs, objfiles |-> objfiles]
(* seen: the new smob as gdbscm_scm_from_gsmob_unsafe, and with it the      *)
(* *smob->scm* hook, is given it.                                           *)
CLast(op, threw, members) ==
    [op |-> op, threw |-> threw, members |-> members, types |-> {},
     obs |-> NoObservation, seen |-> NoSmob]

ChainIdle ==
    /\ smobs = [g \in 1..MaxSlots |-> NoSmob]
    /\ objfiles = [o \in 1..MaxObjfiles |-> LiveObjfile]
    /\ made = 0
    /\ clast = CLast("none", FALSE, {})

IterIdle ==
    /\ iter = NoIter
    /\ res = NoRes
    /\ print_excp = gdbscm_print_excp_message

PortIdle ==
    /\ port = NoPort
    /\ last = Last("none", "", 0, 0, Ok(NoPort))
    /\ scen = 0

(* The storage scm_gc_malloc hands out: the first that is not in use.       *)
FreeSlots ==
    {g \in Slots : made < MaxSmobs + (Len(smobs) - MaxSlots)
                   /\ smobs[g].st # "alloc"
                   /\ \A h \in 1..(g - 1) : smobs[h].st = "alloc"}

ChainApply(op, g, r, held) ==
    /\ made' = IF op = "collect" THEN made ELSE made + 1
    /\ smobs' = IF held /\ ~r.threw
                THEN [r.H.smobs EXCEPT ![g].held = TRUE] ELSE r.H.smobs
    /\ objfiles' = r.H.objfiles
    /\ clast' = [CLast(op, r.threw, {}) EXCEPT !.seen = r.seen]
    /\ UNCHANGED <<portVars, iterVars, convVars>>

SymtabFromSymtab(g, objfile, hookok) ==
    /\ g \in FreeSlots /\ objfiles[objfile].alive
    /\ ChainApply("symtab", g,
                  stscm_scm_from_symtab_unsafe(Heap, g, objfile, hookok),
                  TRUE)

SymbolFromSymbol(g, symbol, hookok) ==
    /\ g \in FreeSlots
    /\ symbol # NoSymtab => objfiles[symbol].alive
    /\ ChainApply("symbol", g,
                  syscm_scm_from_symbol_unsafe(Heap, g, symbol, hookok),
                  TRUE)

TypeFromType(g, type, hookok) ==
    /\ g \in FreeSlots
    /\ type # ArchOwned => objfiles[type].alive
    /\ ChainApply("type", g,
                  tyscm_scm_from_type_unsafe(Heap, g, type, hookok),
                  TRUE)

(* The smobs a script can pass to a symtab or symbol procedure.             *)
Handles ==
    {g \in Slots : /\ smobs[g].st = "alloc" /\ smobs[g].held
                   /\ smobs[g].kind \in Keys}

Observe(op, g, g2, o) ==
    /\ clast' = [CLast(op, o.key # "none", {})
                   EXCEPT !.obs = [g |-> g, g2 |-> g2, key |-> o.key,
                                   val |-> o.val, deref |-> o.deref]]
    /\ UNCHANGED <<smobs, objfiles, made, portVars, iterVars, convVars>>

PrintSmob(g) ==
    /\ g \in Handles
    /\ Observe("print", g, NULL,
               IF smobs[g].kind = stscm_objfile_data_key
               THEN stscm_print_symtab_smob(smobs[g])
               ELSE syscm_print_symbol_smob(smobs[g]))

EqualP(g1, g2) ==
    /\ g1 \in Handles /\ g2 \in Handles
    /\ Observe("equal?", g1, g2, scm_equal_p(smobs, g1, g2))

ValidP(g) ==
    /\ g \in Handles
    /\ Observe("valid?", g, NULL, valid_p(smobs[g]))

Accessor(g) ==
    /\ g \in Handles
    /\ Observe("accessor", g, NULL,
               IF smobs[g].kind = stscm_objfile_data_key
               THEN gdbscm_symtab_filename(smobs[g])
               ELSE gdbscm_symbol_name(smobs[g]))

SalFromSal(g, symtab, hookok) ==
    /\ g \in FreeSlots
    /\ symtab # NULL => objfiles[symtab].alive
    /\ ChainApply("sal", g,
                  stscm_scm_from_sal_unsafe(Heap, g, symtab, hookok),
                  symtab # NULL)

Collect(g, stale) ==
    /\ smobs[g].st = "alloc"
    /\ stale # NULL => objfiles[stale].alive
    /\ ChainApply("collect", g,
                  [H |-> scm_gc_free(Heap, g, stale), threw |-> FALSE,
                   seen |-> NoSmob],
                  FALSE)

FreeObjfile(objfile) ==
    /\ objfiles[objfile].alive
    /\ LET H1 == free_objfile(Heap, objfile)
       IN  /\ smobs' = H1.smobs
           /\ objfiles' = H1.objfiles
           /\ made' = made
           /\ clast' = [CLast("free_objfile", FALSE,
                              UNION {Chain(smobs, objfiles, objfile, k) :
                                       k \in Keys})
                          EXCEPT !.types =
                             Chain(smobs, objfiles, objfile,
                                   tyscm_objfile_data_key)]
    /\ UNCHANGED <<portVars, iterVars, convVars>>

ConvIdle == conv = NoConv

ChainInit == PortIdle /\ ChainIdle /\ IterIdle /\ ConvIdle

ChainNext ==
    \/ \E g \in Slots, objfile \in Objfiles, hookok \in BOOLEAN :
          SymtabFromSymtab(g, objfile, hookok)
    \/ \E g \in Slots, symbol \in Objfiles \cup {NoSymtab}, hookok \in BOOLEAN :
          SymbolFromSymbol(g, symbol, hookok)
    \/ \E g \in Slots, symtab \in Objfiles \cup {NULL}, hookok \in BOOLEAN :
          SalFromSal(g, symtab, hookok)
    \/ \E g \in Slots, type \in Objfiles \cup {ArchOwned}, hookok \in BOOLEAN :
          TypeFromType(g, type, hookok)
    \/ \E g \in Slots : PrintSmob(g)
    \/ \E g1 \in Slots, g2 \in Slots : EqualP(g1, g2)
    \/ \E g \in Slots : ValidP(g)
    \/ \E g \in Slots : Accessor(g)
    \/ \E g \in Slots, stale \in Objfiles \cup {NULL} : Collect(g, stale)
    \/ \E objfile \in Objfiles : FreeObjfile(objfile)

SpecChain == ChainInit /\ [][ChainNext]_vars

(* The same heap with one more storage location and one more objfile, for   *)
(* the runs in which storage released by the collector is handed out again  *)
(* for a smob of another kind: symtab, sal and type smobs only.             *)
ReuseInit ==
    /\ PortIdle /\ IterIdle /\ ConvIdle
    /\ smobs = [g \in 1..(MaxSlots + 1) |-> NoSmob]
    /\ objfiles = [o \in 1..(MaxObjfiles + 1) |-> LiveObjfile]
    /\ made = 0
    /\ clast = CLast("none", FALSE, {})

ReuseNext ==
    \/ \E g \in Slots, objfile \in Objfiles, hookok \in BOOLEAN :
          SymtabFromSymtab(g, objfile, hookok)
    \/ \E g \in Slots, symtab \in Objfiles \cup {NULL}, hookok \in BOOLEAN :
          SalFromSal(g, symtab, hookok)
    \/ \E g \in Slots, type \in Objfiles \cup {ArchOwned}, hookok \in BOOLEAN :
          TypeFromType(g, type, hookok)
    \/ \E g \in Slots, stale \in Objfiles \cup {NULL} : Collect(g, stale)
    \/ \E objfile \in Objfiles : FreeObjfile(objfile)

SpecReuse == ReuseInit /\ [][ReuseNext]_vars

----------------------------------------------------------------------------
(* The iterator specification: a script makes an iterator and uses it.      *)

ObjectChoices == {scm_from_int(n) : n \in 0..MaxCount}
TypeChoices ==
    {TypeSmob(code, n) : code \in {"struct", "typedef"}, n \in 0..MaxCount}
       \cup {TypeSmob("int", 0), scm_from_int(0)}
NextChoices == {Proc("count"), Proc("throw"), scm_from_int(0)}
SelfChoices == {IteratorSmob, scm_from_int(0)}
KeyChoices == {"gdb:error", "signal"}

IterStep(op, r, reached) ==
    /\ iter' = r.it
    /\ res' = [op |-> op, threw |-> r.threw, key |-> r.key, val |-> r.val,
               reached |-> reached,
               calls |-> IF reached THEN res.calls + 1 ELSE res.calls,
               only_next |-> res.only_next
                             /\ (reached \/ ~iter.made \/ r.it = iter),
               out |-> NoPrinted]
    /\ UNCHANGED <<print_excp, portVars, chainVars, convVars>>

IterApply(op, r) == IterStep(op, r, FALSE)

MakeIterator(object, progress, next, hookok) ==
    /\ ~iter.made
    /\ IterApply("make-iterator",
                 gdbscm_make_iterator(object, progress, next, hookok))

IteratorProgress(self) ==
    /\ iter.made
    /\ IterApply("iterator-progress", gdbscm_iterator_progress(self, iter))

SetIteratorProgress(self, value) ==
    /\ iter.made
    /\ IterApply("set-iterator-progress!",
                 gdbscm_set_iterator_progress_x(self, iter, value))

MakeFieldIterator(self, hookok1, hookok2) ==
    /\ ~iter.made
    /\ IterApply("make-field-iterator",
                 gdbscm_make_field_iterator(self, hookok1, hookok2))

IteratorNext(self) ==
    /\ iter.made /\ res.calls < MaxCount + 2
    /\ IterStep("iterator-next!", gdbscm_iterator_next_x(self, iter),
                itscm_get_iterator_arg_unsafe(self) = "")

WithOutputToPort(thunk) ==
    /\ iter.made
    /\ IterApply("with-output-to-port",
                 ioscm_with_output_to_port_worker(thunk, iter))

MakeException(key) ==
    /\ key \in KeyChoices
    /\ IterApply("make-exception", Return(iter, gdbscm_make_exception(key)))

(* The exceptions that get printed: plain ones, and ones wrapped with the   *)
(* stack they were thrown with.                                             *)
PlainExceptions ==
    {[key |-> "gdb:error", args |-> <<"message">>],
     [key |-> "misc-error", args |-> <<>>]}
PrintedExceptions ==
    PlainExceptions
       \cup {gdbscm_make_exception_with_stack(e.key, e.args, "captured") :
               e \in PlainExceptions}
StackChoices == {"#f", "#t", "passed"}

PrintApply(op, stack, exception, found, written) ==
    /\ res' = [NoRes EXCEPT !.op = op, !.calls = res.calls,
                           !.only_next = res.only_next,
                           !.out = Printed(stack, exception.key,
                                           exception.args, found, written)]
    /\ UNCHANGED <<iter, print_excp, portVars, chainVars, convVars>>

(* "set guile print-stack MODE".                                            *)
SetPrintStack(mode) ==
    /\ mode \in guile_print_excp_enums
    /\ print_excp' = mode
    /\ res' = [NoRes EXCEPT !.op = "set-print-stack", !.calls = res.calls,
                           !.only_next = res.only_next]
    /\ UNCHANGED <<iter, portVars, chainVars, convVars>>

PrintException(exception, found) ==
    /\ exception \in PrintedExceptions
    /\ PrintApply("print-exception", "#t", exception, found,
                  gdbscm_print_exception(print_excp, exception, found))

PrintExceptionWithArgs(stack, exception, found) ==
    /\ exception \in PrintedExceptions
    /\ PrintApply("print-exception-with-args", stack, exception, found,
                  gdbscm_print_exception_with_args(print_excp, stack,
                                                   exception.key,
                                                   exception.args, found))

IterInit == PortIdle /\ ChainIdle /\ IterIdle /\ ConvIdle

IterNext ==
    \/ \E object \in ObjectChoices, progress \in ObjectChoices,
          next \in NextChoices, hookok \in BOOLEAN :
          MakeIterator(object, progress, next, hookok)
    \/ \E self \in TypeChoices, hookok1 \in BOOLEAN, hookok2 \in BOOLEAN :
          MakeFieldIterator(self, hookok1, hookok2)
    \/ \E self \in SelfChoices : IteratorProgress(self)
    \/ \E self \in SelfChoices, value \in ObjectChoices :
          SetIteratorProgress(self, value)
    \/ \E self \in SelfChoices : IteratorNext(self)
    \/ \E thunk \in NextChoices : WithOutputToPort(thunk)
    \/ \E key \in KeyChoices : MakeException(key)
    \/ \E mode \in guile_print_excp_enums : SetPrintStack(mode)
    \/ \E exception \in PrintedExceptions, found \in BOOLEAN :
          PrintException(exception, found)
    \/ \E stack \in StackChoices, exception \in PrintedExceptions,
          found \in BOOLEAN :
          PrintExceptionWithArgs(stack, exception, found)

SpecIter == IterInit /\ [][IterNext]_vars

----------------------------------------------------------------------------
(* The conversion specification: a script sets the hooks, and gdb converts  *)
(* smobs on their way to the script and values on their way back.           *)

HookChoices ==
    {SCM_BOOL_F, Proc("wrap"), Proc("unwrap"), Proc("swap"), Proc("zero"),
     Proc("raise"), Proc("throw"), scm_from_int(0)}
ScmChoices ==
    SmobChoices \cup {Wrapper(smob) : smob \in SmobChoices}
       \cup {SCM_BOOL_F, scm_from_int(0), Exception("gdb:error", 3)}
TagChoices == {symtab_smob_tag, symbol_smob_tag, AnyTag}

ConvApply(op, arg, tag, mid, out) ==
    /\ conv' = [NoConv EXCEPT !.from_hook = conv.from_hook,
                              !.to_hook = conv.to_hook,
                              !.aux = conv.aux,
                              !.op = op, !.arg = arg, !.tag = tag,
                              !.mid = mid, !.out = out]
    /\ UNCHANGED <<portVars, chainVars, iterVars>>

SetFromSmobHook(proc) ==
    /\ proc # conv.from_hook
    /\ conv' = [NoConv EXCEPT !.from_hook = proc, !.to_hook = conv.to_hook,
                              !.aux = conv.aux, !.op = "set"]
    /\ UNCHANGED <<portVars, chainVars, iterVars>>

SetToSmobHook(proc) ==
    /\ proc # conv.to_hook
    /\ conv' = [NoConv EXCEPT !.from_hook = conv.from_hook, !.to_hook = proc,
                              !.aux = conv.aux, !.op = "set"]
    /\ UNCHANGED <<portVars, chainVars, iterVars>>

FromGsmobSafe(smob) ==
    /\ gdbscm_is_gsmob(smob)
    /\ ConvApply("from_safe", smob, AnyTag, SCM_BOOL_F,
                 gdbscm_scm_from_gsmob_safe(conv.from_hook, smob))

FromGsmobUnsafe(smob) ==
    /\ gdbscm_is_gsmob(smob)
    /\ ConvApply("from_unsafe", smob, AnyTag, SCM_BOOL_F,
                 gdbscm_scm_from_gsmob_unsafe(conv.from_hook, smob))

ToGsmobSafe(scm, tag) ==
    /\ tag \in TagChoices
    /\ ConvApply("to_safe", scm, tag, SCM_BOOL_F,
                 gdbscm_scm_to_gsmob_safe(conv.to_hook, scm, tag))

ToGsmobUnsafe(scm, tag) ==
    /\ tag \in TagChoices
    /\ ConvApply("to_unsafe", scm, tag, SCM_BOOL_F,
                 gdbscm_scm_to_gsmob_unsafe(conv.to_hook, scm, tag))

(* A smob handed to the script and what the script then hands back for it.  *)
RoundTrip(smob) ==
    LET mid == gdbscm_scm_from_gsmob_safe(conv.from_hook, smob).val
    IN  /\ smob \in SmobChoices
        /\ ConvApply("round_trip", smob, smob.t, mid,
                     gdbscm_scm_to_gsmob_safe(conv.to_hook, mid, smob.t))

(* The gdb exceptions a call into gdb can raise.                            *)
ReasonChoices == {"RETURN_QUIT", "RETURN_ERROR"}
ErrorChoices == {"GENERIC_ERROR", "MEMORY_ERROR"}
MessageChoices == {"Quit", "Cannot access memory at address 0x0"}
GdbExceptions ==
    {GdbException(reason, error, message) :
        reason \in ReasonChoices, error \in ErrorChoices,
        message \in MessageChoices}
HostOutcomes ==
    {NoException,
     GdbException("RETURN_QUIT", "GENERIC_ERROR", "Quit"),
     GdbException("RETURN_ERROR", "MEMORY_ERROR",
                  "Cannot access memory at address 0x0"),
     GdbException("RETURN_ERROR", "GENERIC_ERROR", "Quit")}

(* A procedure that calls into gdb was applied; raised: what each of its    *)
(* calls that was reached raised.                                           *)
HostApply(op, raised, r) ==
    /\ conv' = [NoConv EXCEPT !.from_hook = conv.from_hook,
                              !.to_hook = conv.to_hook,
                              !.aux = conv.aux,
                              !.op = op, !.raised = raised, !.host = r]
    /\ UNCHANGED <<portVars, chainVars, iterVars>>

FromGdbException(exception) ==
    /\ exception \in GdbExceptions
    /\ HostApply("translate", <<exception>>,
                 [HostReturn("gdb:exception")
                    EXCEPT !.exc = gdbscm_scm_from_gdb_exception(exception)])

TypeSizeof(check_typedef) ==
    /\ check_typedef \in HostOutcomes
    /\ HostApply("type-sizeof", <<check_typedef>>,
                 gdbscm_type_sizeof(check_typedef))

TypeEqualP(types_deeply_equal) ==
    /\ types_deeply_equal \in HostOutcomes
    /\ HostApply("equal?", <<types_deeply_equal>>,
                 gdbscm_type_equal_p(types_deeply_equal))

LookupType(lookup, found) ==
    /\ lookup \in HostOutcomes
    /\ HostApply("lookup-type", <<lookup>>,
                 gdbscm_lookup_type(lookup, found))

FramePc(find, found, get_frame_pc) ==
    /\ find \in HostOutcomes
    /\ HostApply("frame-pc",
                 IF ~Raised(find) /\ found THEN <<find, get_frame_pc>>
                 ELSE <<find>>,
                 gdbscm_frame_pc(find, found, get_frame_pc))

FrameUnwindStopReason(find, found, get_frame_unwind_stop_reason) ==
    /\ find \in HostOutcomes
    /\ HostApply("frame-unwind-stop-reason",
                 IF ~Raised(find) /\ found
                 THEN <<find, get_frame_unwind_stop_reason>>
                 ELSE <<find>>,
                 gdbscm_frame_unwind_stop_reason(
                     find, found, get_frame_unwind_stop_reason))

SymtabFullname(symtab_to_fullname) ==
    /\ symtab_to_fullname \in HostOutcomes
    /\ HostApply("symtab-fullname", <<symtab_to_fullname>>,
                 gdbscm_symtab_fullname(symtab_to_fullname))

ConvInit == PortIdle /\ ChainIdle /\ IterIdle /\ ConvIdle

ConvNext ==
    \/ \E exception \in GdbExceptions : FromGdbException(exception)
    \/ \E h \in HostOutcomes : TypeSizeof(h)
    \/ \E h \in HostOutcomes : TypeEqualP(h)
    \/ \E h \in HostOutcomes, found \in BOOLEAN : LookupType(h, found)
    \/ \E h1 \in HostOutcomes, found \in BOOLEAN, h2 \in HostOutcomes :
          FramePc(h1, found, h2)
    \/ \E h1 \in HostOutcomes, found \in BOOLEAN, h2 \in HostOutcomes :
          FrameUnwindStopReason(h1, found, h2)
    \/ \E h \in HostOutcomes : SymtabFullname(h)
    \/ \E proc \in HookChoices : SetFromSmobHook(proc)
    \/ \E proc \in HookChoices : SetToSmobHook(proc)
    \/ \E smob \in SmobChoices \cup {Exception("gdb:error", 3)} :
          FromGsmobSafe(smob)
    \/ \E smob \in SmobChoices \cup {Exception("gdb:error", 3)} :
          FromGsmobUnsafe(smob)
    \/ \E scm \in ScmChoices, tag \in TagChoices : ToGsmobSafe(scm, tag)
    \/ \E scm \in ScmChoices, tag \in TagChoices : ToGsmobUnsafe(scm, tag)
    \/ \E smob \in SmobChoices : RoundTrip(smob)

SpecConv == ConvInit /\ [][ConvNext]_vars

(* The script-level accessors of the aux slot, and the construction of a    *)
(* handle.                                                                  *)
AuxValues == {SCM_BOOL_F, scm_from_int(0)}
MadeSmobs == {smob \in AuxHandles : conv.aux[smob] # Unmade}
AuxArgs ==
    MadeSmobs \cup {Wrapper(smob) : smob \in MadeSmobs \cap SmobChoices}
       \cup {scm_from_int(0)}

AuxApply(op, self, x, r) ==
    /\ conv' = [NoConv EXCEPT !.from_hook = conv.from_hook,
                              !.to_hook = conv.to_hook,
                              !.aux = r.store,
                              !.op = op, !.arg = self, !.x = x,
                              !.out = r.out]
    /\ UNCHANGED <<portVars, chainVars, iterVars>>

InitGsmob(smob) ==
    /\ conv.aux[smob] = Unmade
    /\ AuxApply("init", smob, SCM_BOOL_F,
                AuxOutcome(ConvReturn(smob, FALSE),
                           gdbscm_init_gsmob(conv.aux, smob)))

GsmobAux(self, stray) ==
    /\ self \in AuxArgs
    /\ AuxApply("gsmob-aux", self, SCM_BOOL_F,
                gdbscm_gsmob_aux(conv.to_hook, conv.aux, self, stray))

SetGsmobAux(self, aux, stray) ==
    /\ self \in AuxArgs
    /\ AuxApply("set-gsmob-aux!", self, aux,
                gdbscm_set_gsmob_aux_x(conv.to_hook, conv.aux, self, aux,
                                       stray))

AuxNext ==
    \/ \E proc \in {SCM_BOOL_F, Proc("unwrap"), Proc("raise")} :
          SetToSmobHook(proc)
    \/ \E smob \in AuxHandles : InitGsmob(smob)
    \/ \E self \in ScmChoices, stray \in AuxCells : GsmobAux(self, stray)
    \/ \E self \in ScmChoices, aux \in AuxValues, stray \in AuxCells :
          SetGsmobAux(self, aux, stray)

SpecAux == ConvInit /\ [][AuxNext]_vars

----------------------------------------------------------------------------
(* Properties of the chained smobs.                                         *)

SmobValid(sm) ==
    IF sm.kind = stscm_objfile_data_key THEN gdbscm_symtab_valid_p(sm)
    ELSE gdbscm_symbol_valid_p(sm)

SmobGate(sm) ==
    IF sm.kind = stscm_objfile_data_key
    THEN stscm_get_valid_symtab_smob_arg_unsafe(sm)
    ELSE syscm_get_valid_symbol_smob_arg_unsafe(sm)

C1_Witness ==
    /\ clast.op = "free_objfile"
    /\ \E g1 \in clast.members, g2 \in clast.members :
          /\ g1 # g2
          /\ smobs[g1].st = "alloc" /\ smobs[g1].held
          /\ smobs[g2].st = "alloc" /\ smobs[g2].held
          /\ smobs[g1].kind = stscm_objfile_data_key
          /\ smobs[g2].kind = stscm_objfile_data_key

(* C2: at all times the list of each key of each live objfile is a          *)
(* well-formed doubly linked list (the head has no prev, next and prev      *)
(* agree) that holds exactly the smobs of that kind that the script holds,  *)
(* that are valid and that refer to the objfile.                            *)
C2_ChainsWellFormed ==
    \A objfile \in Objfiles, key \in Keys :
       objfiles[objfile].alive =>
          LET head == objfiles[objfile].data[key]
              chain == Chain(smobs, objfiles, objfile, key)
          IN  /\ head # NULL => smobs[head].prev = NULL
              /\ \A g \in chain :
                    smobs[g].next # NULL => smobs[smobs[g].next].prev = g
              /\ chain = {g \in Slots : /\ smobs[g].st = "alloc"
                                        /\ smobs[g].held
                                        /\ smobs[g].kind = key
                                        /\ smobs[g].native = objfile}

----------------------------------------------------------------------------
(* Properties of the iterators and exception objects.                       *)

(* C3: no procedure returns a <gdb:exception> object as its result (the     *)
(* constructor make-exception aside); in particular iterator-next! does not *)
(* return the <gdb:exception> made for a next! procedure that threw.        *)
C3_NoExceptionResult ==
    (~res.threw /\ res.op # "make-exception")
       => ~gdbscm_is_exception(res.val)

----------------------------------------------------------------------------
(* Properties of the memory port.                                           *)

(* The bytes of the requests i..j of io that the inferior accepted.         *)
RECURSIVE Accepted(_, _, _)
Accepted(io, i, j) ==
    IF i > j THEN 0
    ELSE (IF io[i].ok THEN Len(io[i].data) ELSE 0) + Accepted(io, i + 1, j)

(* The bytes in the read buffers that the script has not consumed.          *)
Unread(p) ==
    IF p.rw_active # SCM_PORT_READ THEN 0
    ELSE (Len(p.read_buf) - p.read_pos)
         + (IF p.in_putback THEN Len(p.saved_read_buf) - p.saved_read_pos
            ELSE 0)

(* C4: every request made to the inferior (by a fill, a flush or a direct   *)
(* write) starts at start + current, current being the position when the    *)
(* request is made, and covers no address below start or above end.         *)
C4_RequestsInRange ==
    [][\A i \in DOMAIN last'.io :
          LET r == last'.io[i]
              n == Len(last'.io)
          IN  /\ r.addr >= port.start
              /\ Len(r.data) > 0 => r.addr + Len(r.data) - 1 <= port.end
              /\ r.addr = IF last'.op \in {"seek", "close"}
                          THEN port.start + port.current
                               + Accepted(last'.io, 1, i - 1)
                          ELSE port'.start + port'.current
                               - Accepted(last'.io, i, n)]_vars

(* C4, its case: a write flushed pending bytes and then wrote up to the     *)
(* last address of the range.                                               *)
C4_Witness ==
    /\ port.state = "open" /\ last.op = "write" /\ Len(last.io) = 2
    /\ last.io[1].ok /\ last.io[2].ok
    /\ last.io[1].addr = port.start
    /\ last.io[2].addr + Len(last.io[2].data) - 1 = port.end

(* C5: an open port has 0 <= current <= size, size = end - start + 1 >= 1   *)
(* and end below the all-ones address, whatever was done to it.             *)
C5_PositionInRange ==
    port.state = "open" =>
       /\ 0 <= port.current /\ port.current <= port.size
       /\ port.size = port.end - port.start + 1
       /\ port.size >= 1
       /\ port.end # AllOnes

(* C5, its case: a seek failed on a port whose position is at the end.      *)
C5_Witness ==
    /\ port.state = "open" /\ last.op = "seek"
    /\ last.err = OutOfRange("bad seek")
    /\ port.current = port.size

(* C6: on a port of size N at position 0 with nothing buffered, a write of  *)
(* N bytes is not out of range: when the inferior accepts it, it stores the *)
(* N bytes at start .. start + N - 1 and leaves current = N; a write of     *)
(* N + 1 bytes throws out-of-range, makes no request and leaves current 0.  *)
C6_WriteAtBoundary ==
    [][(/\ last'.op = "write"
        /\ port.current = 0 /\ port.write_buf = <<>> /\ Unread(port) = 0)
       => /\ last'.n = port.size =>
               /\ last'.err.key # "out-of-range"
               /\ Len(last'.io) = 1
               /\ last'.io[1].addr = port.start
               /\ last'.io[1].data = Data(port.size)
               /\ last'.io[1].ok =>
                     /\ last'.err = NoErr
                     /\ port'.current = port.size
          /\ last'.n = port.size + 1 =>
               /\ last'.err.key = "out-of-range"
               /\ last'.io = <<>>
               /\ port'.current = 0]_vars

(* C6, its case: N bytes were written from position 0 of a port of size N.  *)
C6_Witness ==
    /\ port.state = "open" /\ last.op = "write" /\ last.err = NoErr
    /\ last.n = port.size /\ port.current = port.size
    /\ last.io = <<Req("write", port.start, Data(port.size), TRUE)>>

(* C7: on a port opened with mode r+, start 0x1000 and size 4, after a      *)
(* write of 3 bytes, seek (0, SEEK_CUR) reports 3; a write of 2 bytes then  *)
(* throws out-of-range and current stays 3.                                 *)
C7_Scenario ==
    /\ scen = 3 => /\ last.op = "seek" /\ last.err = NoErr /\ last.ret = 3
                   /\ port.current = 3
    /\ scen = 4 => /\ last.op = "write" /\ last.err.key = "out-of-range"
                   /\ last.io = <<>>
                   /\ port.current = 3

(* C7, its case: the scenario was played to its end.                        *)
C7_Witness == scen = 4 /\ port.start = ScenStart /\ port.size = ScenSize

(* The inputs open-memory rejects for their range: an all-ones start, an    *)
(* explicit size of 0, start + size beyond the address width (which         *)
(* includes an end at the all-ones address).                                *)
RangeRejected(start, size) ==
    \/ start = AllOnes
    \/ size = 0
    \/ size # NoSize /\ start + size >= Wrap
    \/ size # NoSize /\ start + size - 1 = AllOnes

OpenFailed == last.err # NoErr /\ port.state = "none"

OpenSucceeded ==
    /\ last.err = NoErr /\ port.state = "open"
    /\ port.start = last.s
    /\ port.start <= port.end /\ port.end < AllOnes
    /\ port.current = 0

(* C8: open-memory fails, making no port, when start is all-ones, when an   *)
(* explicit size is 0, when start + size wraps or when the end would be     *)
(* all-ones; for every other input whose mode string is valid it succeeds   *)
(* with start <= end < all-ones and current = 0; with an invalid mode       *)
(* string it fails.                                                         *)
C8_OpenOutcome ==
    last.op = "open" =>
       /\ RangeRejected(last.s, last.n) => OpenFailed
       /\ (~RangeRejected(last.s, last.n) /\ last.a \in {"r", "r+"})
             => OpenSucceeded
       /\ ~ValidMode(last.a) => OpenFailed

(* C8, its case: an open was rejected because start + size wraps.           *)
C8_Witness ==
    /\ last.op = "open" /\ OpenFailed
    /\ last.s # AllOnes /\ last.n > 0 /\ last.s + last.n > Wrap

(* C8 as stated: open-memory succeeds for every input that none of the      *)
(* four range conditions rejects.                                           *)
C8_AsStated ==
    last.op = "open" =>
       IF RangeRejected(last.s, last.n) THEN OpenFailed ELSE OpenSucceeded

(* C9: each rejected condition has its own error: size 0 gives "zero size", *)
(* an all-ones start "start address of 0xff..ff not allowed", an end at     *)
(* the all-ones address "end address of 0xff..ff not allowed", and any      *)
(* other wraparound of start + size "start+size overflows".                 *)
C9_DistinctErrors ==
    (last.op = "open" /\ RangeRejected(last.s, last.n)) =>
       last.err =
          IF last.s = AllOnes
          THEN OutOfRange("start address of 0xff..ff not allowed")
          ELSE IF last.n = 0 THEN OutOfRange("zero size")
          ELSE IF last.s + last.n - 1 = AllOnes
          THEN OutOfRange("end address of 0xff..ff not allowed")
          ELSE OutOfRange("start+size overflows")

(* C10: a flush with n > 0 pending bytes throws out-of-range, makes no      *)
(* request and leaves the port as it was when n > size - current;           *)
(* otherwise, when the inferior accepts it, it writes the n bytes at        *)
(* start + current, adds n to current, empties the write buffer and leaves  *)
(* the port neither reading nor writing.  A flush with nothing pending      *)
(* changes nothing.                                                         *)
C10_Flush ==
    [][last'.op = "flush" =>
         LET n == Len(port.write_buf)
         IN  IF n = 0
             THEN port' = port /\ last'.io = <<>> /\ last'.err = NoErr
             ELSE IF n > port.size - port.current
             THEN /\ last'.err.key = "out-of-range"
                  /\ last'.io = <<>>
                  /\ port' = port
             ELSE /\ Len(last'.io) = 1
                  /\ last'.io[1].addr = port.start + port.current
                  /\ last'.io[1].data = port.write_buf
                  /\ IF last'.io[1].ok
                     THEN /\ last'.err = NoErr
                          /\ port'.current = port.current + n
                          /\ port'.write_buf = <<>>
                          /\ port'.rw_active = SCM_PORT_NEITHER
                     ELSE /\ last'.err.key = "gdb:memory-error"
                          /\ port' = port]_vars

(* C10, its case: a flush wrote the pending bytes up to the last address.   *)
C10_Witness ==
    /\ port.state = "open" /\ last.op = "flush" /\ last.err = NoErr
    /\ Len(last.io) = 1 /\ Len(last.io[1].data) = MaxPending
    /\ port.current = port.size
    /\ port.rw_active = SCM_PORT_NEITHER /\ port.write_buf = <<>>

(* C11: a write of k bytes on a port with n > 0 bytes in the write buffer    *)
(* first requests the n buffered bytes at start + current; when that flush  *)
(* fails (out of range, or refused by the inferior) no request for the new  *)
(* bytes is made; when it succeeds the k bytes are checked against          *)
(* size - (current + n) and requested at start + current + n.               *)
C11_WriteFlushesFirst ==
    [][(last'.op = "write" /\ port.write_buf # <<>>) =>
         LET n == Len(port.write_buf)
             k == last'.n
             io == last'.io
         IN  IF n > port.size - port.current
             THEN /\ last'.err.key = "out-of-range"
                  /\ io = <<>> /\ port' = port
             ELSE /\ Len(io) >= 1
                  /\ io[1].addr = port.start + port.current
                  /\ io[1].data = port.write_buf
                  /\ IF ~io[1].ok
                     THEN /\ Len(io) = 1
                          /\ last'.err.key = "gdb:memory-error"
                          /\ port' = port
                     ELSE IF k > port.size - (port.current + n)
                     THEN /\ Len(io) = 1
                          /\ last'.err.key = "out-of-range"
                          /\ port'.current = port.current + n
                     ELSE /\ Len(io) = 2
                          /\ io[2].addr = port.start + port.current + n
                          /\ io[2].data = Data(k)
                          /\ io[2].ok =>
                                /\ last'.err = NoErr
                                /\ port'.current = port.current + n + k]_vars

(* C11, its case: a write flushed the buffered bytes and then wrote its own *)
(* bytes behind them.                                                       *)
C11_Witness ==
    /\ port.state = "open" /\ last.op = "write" /\ last.err = NoErr
    /\ Len(last.io) = 2 /\ last.n > 0
    /\ last.io[1].data = <<65, 66>>
    /\ last.io[2].addr = last.io[1].addr + 2
    /\ last.io[2].data = Data(last.n)

(* C12: a fill of a port that is not writing and has no pushed-back bytes   *)
(* returns EOF, makes no request and changes neither current nor the read   *)
(* buffer when current >= size; otherwise it requests exactly               *)
(* min (read_buf_size, size - current) bytes at start + current and, when    *)
(* the inferior delivers them, makes them the read buffer with nothing      *)
(* consumed and adds their count to current; when the read fails it throws  *)
(* gdb:memory-error and leaves current and the read buffer as they were.    *)
C12_FillInput ==
    [][(last'.op = "fill" /\ port.write_buf = <<>> /\ ~port.in_putback) =>
         LET n == Min(port.pt_read_buf_size, port.size - port.current)
             io == last'.io
             Same == /\ port'.current = port.current
                     /\ port'.read_buf = port.read_buf
                     /\ port'.read_pos = port.read_pos
         IN  IF port.current >= port.size
             THEN last'.err = EofMark /\ io = <<>> /\ Same
             ELSE /\ Len(io) = 1
                  /\ io[1].op = "read"
                  /\ io[1].addr = port.start + port.current
                  /\ Len(io[1].data) = n
                  /\ IF io[1].ok
                     THEN /\ last'.err = NoErr
                          /\ port'.read_buf = io[1].data
                          /\ port'.read_pos = 0
                          /\ port'.current = port.current + n
                     ELSE /\ last'.err.key = "gdb:memory-error"
                          /\ Same]_vars

(* C12, its case: a fill read the bytes left of the range, fewer than the   *)
(* buffer takes, up to the end.                                             *)
C12_Witness ==
    /\ port.state = "open" /\ last.op = "fill" /\ last.err = NoErr
    /\ Len(last.io) = 1 /\ last.io[1].ok
    /\ port.read_buf = last.io[1].data /\ port.read_pos = 0
    /\ Len(port.read_buf) = MaxPos
    /\ Len(port.read_buf) < port.pt_read_buf_size
    /\ port.current = port.size

(* C13: on a port that is reading, with r > 0 bytes unconsumed and its     *)
(* position current - r not negative, seek (0, SEEK_CUR) returns            *)
(* current - r and leaves the port as it was, whatever its start address.   *)
C13_TellWhileReading ==
    [][(/\ last'.op = "seek" /\ last'.a = SEEK_CUR /\ last'.n = 0
        /\ port.rw_active = SCM_PORT_READ
        /\ Unread(port) > 0 /\ port.current >= Unread(port))
       => /\ last'.err = NoErr
          /\ last'.ret = port.current - Unread(port)
          /\ port' = port]_vars

(* C13 on the ports that start at address 0.                                *)
C13_TellAtStartZero ==
    [][(/\ last'.op = "seek" /\ last'.a = SEEK_CUR /\ last'.n = 0
        /\ port.rw_active = SCM_PORT_READ
        /\ Unread(port) > 0 /\ port.current >= Unread(port)
        /\ port.start = 0)
       => /\ last'.err = NoErr
          /\ last'.ret = port.current - Unread(port)
          /\ port' = port]_vars

(* C14: on a port that is writing, with d bytes in the write buffer,        *)
(* seek (0, SEEK_CUR) returns current + d and leaves the port as it was     *)
(* when current + d <= size, and throws out-of-range when current + d is    *)
(* beyond size; so no position outside [0, size] is ever returned.          *)
C14_TellWhileWriting ==
    [][(/\ last'.op = "seek" /\ last'.a = SEEK_CUR /\ last'.n = 0
        /\ port.rw_active = SCM_PORT_WRITE)
       => LET pos == port.current + Len(port.write_buf)
          IN  IF pos <= port.size
              THEN /\ last'.err = NoErr
                   /\ last'.ret = pos
                   /\ port' = port
              ELSE last'.err.key = "out-of-range"]_vars

(* C14 on the ports whose size is below the all-ones value, for the         *)
(* positions up to size.                                                    *)
C14_TellBelowSize ==
    [][(/\ last'.op = "seek" /\ last'.a = SEEK_CUR /\ last'.n = 0
        /\ port.rw_active = SCM_PORT_WRITE
        /\ port.size < AllOnes
        /\ port.current + Len(port.write_buf) <= port.size)
       => /\ last'.err = NoErr
          /\ last'.ret = port.current + Len(port.write_buf)
          /\ port' = port]_vars

(* The position a seek to (offset, whence) asks for, from position base,    *)
(* as a value of the position type.                                         *)
SeekTarget(base, offset, whence) ==
    CASE whence = SEEK_SET -> ToU(offset)
      [] whence = SEEK_CUR -> ToU(base + offset)
      [] OTHER -> port.size

(* Neither buffer of p holds bytes that are unconsumed or unflushed.        *)
NothingPending(p) ==
    /\ p.write_buf = <<>>
    /\ p.read_pos = Len(p.read_buf) /\ ~p.in_putback

(* What C15 says of a seek other than (0, SEEK_CUR) on a port in the given  *)
(* mode: on a writing port the first request is the write of the buffered   *)
(* bytes at start + current, and the position moves only when that flush    *)
(* succeeded; on a reading port the offset is applied to current less the   *)
(* unconsumed bytes; after a successful seek nothing is pending and the     *)
(* port is neither reading nor writing.                                     *)
NontrivialSeek(Writing, Reading) ==
       (last'.op = "seek" /\ ~(last'.a = SEEK_CUR /\ last'.n = 0)) =>
         LET n == Len(port.write_buf)
             io == last'.io
             Settled == NothingPending(port')
                        /\ port'.rw_active = SCM_PORT_NEITHER
         IN  /\ Writing =>
                  /\ (n > 0 /\ io # <<>>) =>
                        /\ Len(io) = 1
                        /\ io[1].op = "write"
                        /\ io[1].addr = port.start + port.current
                        /\ io[1].data = port.write_buf
                  /\ (n > 0 /\ (io = <<>> \/ ~io[1].ok)) =>
                        last'.err # NoErr /\ port' = port
                  /\ n = 0 => io = <<>>
                  /\ last'.err = NoErr =>
                        /\ port'.current =
                              SeekTarget(port.current + n, last'.n, last'.a)
                        /\ Settled
             /\ Reading =>
                  /\ io = <<>>
                  /\ last'.err = NoErr =>
                        /\ port'.current =
                              SeekTarget(port.current - Unread(port),
                                         last'.n, last'.a)
                        /\ Settled

(* C15: a seek other than (0, SEEK_CUR) on a writing port first writes the  *)
(* buffered bytes at start + current and then moves; on a reading port it   *)
(* first drops the read buffer, taking the unconsumed count off current,    *)
(* and then applies the offset; after it succeeds nothing is pending in     *)
(* either buffer and the port is neither reading nor writing.               *)
C15_NontrivialSeek ==
    [][NontrivialSeek(port.rw_active = SCM_PORT_WRITE,
                      port.rw_active = SCM_PORT_READ)]_vars

(* C15 for the writing ports that hold buffered bytes and the reading       *)
(* ports.                                                                   *)
C15_SeekWithPending ==
    [][NontrivialSeek(port.rw_active = SCM_PORT_WRITE
                         /\ port.write_buf # <<>>,
                      port.rw_active = SCM_PORT_READ)]_vars

(* What C16 says of a seek with the arguments in Args on a port that is     *)
(* neither reading nor writing.                                             *)
IdleSeek(Args) ==
    (last'.op = "seek" /\ port.rw_active = SCM_PORT_NEITHER /\ Args) =>
       LET offset == last'.n
           whence == last'.a
           target == IF whence = SEEK_SET THEN offset
                     ELSE port.current + offset
       IN  /\ (whence = SEEK_END /\ offset # 0) =>
                 last'.err.key = "out-of-range"
           /\ (whence = SEEK_END /\ offset = 0) =>
                 last'.err = NoErr /\ port'.current = port.size
           /\ whence \in {SEEK_SET, SEEK_CUR} =>
                 /\ last'.err = NoErr <=> (0 <= target /\ target <= port.size)
                 /\ last'.err = NoErr => port'.current = target
           /\ last'.err # NoErr =>
                 last'.err.key = "out-of-range" /\ port'.current = port.current

(* C16: on a port that is neither reading nor writing, seek (off, SEEK_END) *)
(* with off # 0 throws out-of-range and seek (0, SEEK_END) sets current to  *)
(* size; a SEEK_SET or SEEK_CUR seek succeeds exactly when its target, in   *)
(* unbounded arithmetic, lies in [0, size], and then sets current to it; a  *)
(* seek that throws leaves current as it was.                               *)
C16_IdleSeek == [][IdleSeek(TRUE)]_vars

(* C16 without the SEEK_SET seeks to a negative offset.                     *)
C16_IdleSeekFromZero ==
    [][IdleSeek(~(last'.a = SEEK_SET /\ last'.n < 0))]_vars

(* C17: a seek that moves a port succeeds only to positions in [0, size): a *)
(* seek whose target is size or beyond throws.                              *)
C17_SeekBelowSize ==
    (/\ last.op = "seek" /\ last.err = NoErr
     /\ ~(last.a = SEEK_CUR /\ last.n = 0))
    => port.current < port.size

(* What holds in place of C17: a seek that moves a port succeeds only to    *)
(* positions in [0, size].                                                  *)
C17_SeekUpToSize ==
    (last.op = "seek" /\ last.err = NoErr) =>
       /\ port.current <= port.size
       /\ ~(last.a = SEEK_CUR /\ last.n = 0) => last.ret = port.current

(* What C18 says of a resize made in a state of the given scope: a resize   *)
(* of the read buffer to another valid size while bytes are unconsumed      *)
(* throws and changes nothing; a resize of either buffer to the size it     *)
(* has returns and changes nothing.                                         *)
ResizeGuard(Scope) ==
    Scope =>
       /\ (/\ last'.op = "set_read_buffer_size"
           /\ ValidBufSize(last'.n) /\ last'.n # port.read_buf_size
           /\ Unread(port) > 0)
          => last'.err # NoErr /\ port' = port
       /\ (/\ last'.op = "set_read_buffer_size"
           /\ last'.n = port.read_buf_size)
          => last'.err = NoErr /\ port' = port
       /\ (/\ last'.op = "set_write_buffer_size"
           /\ last'.n = port.write_buf_size)
          => last'.err = NoErr /\ port' = port

(* C18: set-memory-port-read-buffer-size! to a size other than the one in   *)
(* force throws and changes nothing while read bytes are unconsumed; a      *)
(* resize of the read or the write buffer to the size it has succeeds and   *)
(* changes nothing, whatever the buffers hold.                              *)
C18_ResizeGuard == [][ResizeGuard(TRUE)]_vars

(* C18 for the ports that hold no pushed-back byte.                         *)
C18_ResizeWithoutPutback == [][ResizeGuard(~port.in_putback)]_vars

(* The sizes and the buffers of an open port agree: each size is within    *)
(* the limits, the size the accessor returns (iomem->read_buf_size,         *)
(* iomem->write_buf_size) is the size of the buffer the port uses, and no   *)
(* buffer holds more than its size.                                         *)
BufferSizesAgree ==
    port.state = "open" =>
       /\ ValidBufSize(port.read_buf_size)
       /\ ValidBufSize(port.write_buf_size)
       /\ port.read_buf_size = ReadCapacity(port)
       /\ port.write_buf_size = port.pt_write_buf_size
       /\ Len(IF port.in_putback THEN port.saved_read_buf
              ELSE port.read_buf) <= port.read_buf_size
       /\ Len(port.write_buf) <= port.write_buf_size
       /\ (last.op = "open" /\ last.err = NoErr) =>
             /\ port.read_buf_size = default_read_buf_size
             /\ port.write_buf_size = default_write_buf_size

(* A resize to a size outside the limits throws out-of-range and changes    *)
(* nothing; a resize of one buffer leaves the size and the contents of the  *)
(* other.                                                                   *)
ResizeStep ==
    /\ (/\ last'.op \in {"set_read_buffer_size", "set_write_buffer_size"}
        /\ ~ValidBufSize(last'.n))
       => last'.err.key = "out-of-range" /\ port' = port
    /\ last'.op = "set_read_buffer_size" =>
          /\ port'.write_buf_size = port.write_buf_size
          /\ port'.pt_write_buf_size = port.pt_write_buf_size
          /\ port'.write_buf = port.write_buf
    /\ last'.op = "set_write_buffer_size" =>
          /\ port'.read_buf_size = port.read_buf_size
          /\ port'.pt_read_buf_size = port.pt_read_buf_size
          /\ port'.read_buf = port.read_buf
          /\ port'.read_pos = port.read_pos
          /\ port'.saved_read_buf = port.saved_read_buf
          /\ port'.saved_read_pos = port.saved_read_pos

(* C19: the two buffer sizes of an open port are always in [1, 4096], are   *)
(* 16 after open-memory, and the size the accessor returns is the size of   *)
(* the buffer in use; a resize to a size outside [1, 4096] throws           *)
(* out-of-range and changes neither size; a resize of one buffer changes    *)
(* neither the size nor the contents of the other.                          *)
C19_BufferSizes == []BufferSizesAgree /\ [][ResizeStep]_vars

(* C19, its case: both buffers were resized, the read buffer last.          *)
C19_Witness ==
    /\ port.state = "open"
    /\ last.op = "set_read_buffer_size" /\ last.err = NoErr
    /\ port.read_buf_size = min_memory_port_buf_size
    /\ port.write_buf_size = max_memory_port_buf_size

(* The bytes p holds on each path: read and not consumed (pushed-back       *)
(* bytes included), written and not flushed.                                *)
ReadPending(p) ==
    (Len(p.read_buf) - p.read_pos)
    + (IF p.in_putback THEN Len(p.saved_read_buf) - p.saved_read_pos ELSE 0)

WritePending(p) == Len(p.write_buf)

CloseStep(Scope) ==
    (last'.op = "close" /\ Scope) =>
       /\ port.write_buf # <<>> =>
             /\ Len(last'.io) = 1
             /\ last'.io[1].op = "write"
             /\ last'.io[1].addr = port.start + port.current
             /\ last'.io[1].data = port.write_buf
       /\ port.write_buf = <<>> => last'.io = <<>>
       /\ port'.state = "closed"
       /\ port'.read_buf = <<>> /\ port'.write_buf = <<>>

(* C21: a close (or free) of a port in any state first writes what is in    *)
(* the write buffer to the inferior and then frees the read and the write   *)
(* buffer.                                                                  *)
C21_CloseFlushesAndFrees == [][CloseStep(TRUE)]_vars

(* C21 for the closes whose flush has nothing to write or is accepted.      *)
C21_CloseAfterFlush ==
    [][CloseStep(port.write_buf = <<>>
                 \/ (/\ Len(port.write_buf) <= port.size - port.current
                     /\ last'.io # <<>> /\ last'.io[1].ok))]_vars

(* C22: end of input on a port with r bytes unconsumed in its read buffer  *)
(* and k pushed-back bytes unconsumed takes r + k off current, leaves no    *)
(* byte unconsumed and the port neither reading nor writing; it throws      *)
(* out-of-range when r + k exceeds current.                                 *)
C22_EndInput ==
    [][last'.op = "end_input" =>
         LET t == ReadPending(port)
         IN  IF t > port.current
             THEN /\ last'.err.key = "out-of-range"
                  /\ port'.current = port.current
             ELSE /\ last'.err = NoErr
                  /\ port'.current = port.current - t
                  /\ ReadPending(port') = 0 /\ ~port'.in_putback
                  /\ port'.rw_active = SCM_PORT_NEITHER
                  /\ last'.io = <<>>]_vars

(* C22, its case: the one byte of a range was read and input ended with it  *)
(* or a pushed-back byte unconsumed: current is back at 0.                  *)
C22_Witness ==
    /\ port.state = "open" /\ last.op = "end_input" /\ last.err = NoErr
    /\ port.size = 1 /\ port.current = 0
    /\ Len(port.read_buf) = 1 /\ port.read_pos = 1
    /\ port.rw_active = SCM_PORT_NEITHER

----------------------------------------------------------------------------
(* The functions run on an objfile's lists when it is freed.                *)

(* The data of an objfile that was freed are gone: no list head is left.    *)
HeadsCleared ==
    \A objfile \in Objfiles :
       ~objfiles[objfile].alive =>
          \A key \in AllKeys : objfiles[objfile].data[key] = NULL

(* What the function registered for a list makes of the smobs of the list   *)
(* it is given: smobs before it runs, after the smobs once it has run.      *)
Invalidated(before, after, head) ==
    \A g \in ChainFrom(before, head, {}) :
       /\ after[g].native = NULL
       /\ after[g].prev = NULL /\ after[g].next = NULL
Saved(before, after, head) ==
    \A g \in ChainFrom(before, head, {}) :
       /\ after[g].native = ArchOwned
       /\ after[g].prev = NULL /\ after[g].next = NULL

(* C23, as stated: for every objfile that can be freed, each of the three   *)
(* functions registered for its lists (types, symtabs, symbols), run in the *)
(* order of free_objfile on the head of its list, leaves every smob of that *)
(* list invalid (its native pointer is cleared), and once the objfile is    *)
(* freed it has no list head left.                                          *)
C23_TeardownInvalidatesEachKind ==
    /\ \A objfile \in Objfiles :
          objfiles[objfile].alive =>
             LET ty == objfiles[objfile].data[tyscm_objfile_data_key]
                 H0 == save_objfile_types(Heap, ty)
                 st == H0.objfiles[objfile].data[stscm_objfile_data_key]
                 H1 == stscm_del_objfile_symtab(H0, st)
                 sy == H1.objfiles[objfile].data[syscm_objfile_data_key]
                 H2 == syscm_del_objfile_symbols(H1, sy)
             IN  /\ Invalidated(smobs, H0.smobs, ty)
                 /\ Invalidated(H0.smobs, H1.smobs, st)
                 /\ Invalidated(H1.smobs, H2.smobs, sy)
    /\ HeadsCleared

(* C23, amended: the function registered for the symtab list and the one    *)
(* for the symbol list leave every smob of the list they are given invalid  *)
(* and unlinked; the one for the type list leaves every smob of its list    *)
(* unlinked with a type that belongs to no objfile; once the objfile is     *)
(* freed it has no list head left.                                          *)
C23_TeardownByKind ==
    /\ \A objfile \in Objfiles :
          objfiles[objfile].alive =>
             LET ty == objfiles[objfile].data[tyscm_objfile_data_key]
                 H0 == save_objfile_types(Heap, ty)
                 st == H0.objfiles[objfile].data[stscm_objfile_data_key]
                 H1 == stscm_del_objfile_symtab(H0, st)
                 sy == H1.objfiles[objfile].data[syscm_objfile_data_key]
                 H2 == syscm_del_objfile_symbols(H1, sy)
             IN  /\ Saved(smobs, H0.smobs, ty)
                 /\ Invalidated(H0.smobs, H1.smobs, st)
                 /\ Invalidated(H1.smobs, H2.smobs, sy)
                 /\ free_objfile(Heap, objfile).smobs = H2.smobs
    /\ HeadsCleared

(* C23, its case: an objfile was freed with a type smob and a symtab or     *)
(* symbol smob, both handed to the script, on its lists; the type smob has  *)
(* its copied type.                                                         *)
C23_Witness ==
    /\ clast.op = "free_objfile"
    /\ \E g \in clast.types : smobs[g].native = ArchOwned
    /\ \E g1 \in clast.types, g2 \in clast.members :
          /\ smobs[g1].st = "alloc" /\ smobs[g1].held
          /\ smobs[g1].kind = tyscm_objfile_data_key
          /\ smobs[g2].st = "alloc" /\ smobs[g2].held

----------------------------------------------------------------------------
(* Procedures applied to a smob that was invalidated.                       *)

ObserveOps == {"print", "equal?", "valid?", "accessor"}

(* The smobs the last procedure was applied to.                             *)
Observed == {clast.obs.g, clast.obs.g2} \ {NULL}

(* C24: a symtab or symbol smob that was invalidated can still be passed    *)
(* around: printing it, comparing it with equal? and asking valid? return   *)
(* without an exception and without reading the native object (print shows  *)
(* <invalid>, valid? is #f, equal? with another smob is #f), and an         *)
(* accessor throws gdb:invalid-object-error without reading it.             *)
C24_InvalidSmobIsLegal ==
    (clast.op \in ObserveOps /\ \E g \in Observed : smobs[g].native = NULL)
       => /\ ~clast.obs.deref
          /\ clast.op = "print" =>
                ~clast.threw /\ clast.obs.val = "<invalid>"
          /\ clast.op = "valid?" => ~clast.threw /\ clast.obs.val = "#f"
          /\ clast.op = "equal?" =>
                /\ ~clast.threw
                /\ clast.obs.val = scm_from_bool(clast.obs.g = clast.obs.g2)
          /\ clast.op = "accessor" =>
                /\ clast.threw
                /\ clast.obs.key = "gdb:invalid-object-error"

(* C24, its case: a smob that the freeing of its objfile invalidated was    *)
(* printed.                                                                 *)
C24_Witness ==
    /\ clast.op = "print"
    /\ smobs[clast.obs.g].native = NULL
    /\ \E o \in Objfiles : ~objfiles[o].alive

----------------------------------------------------------------------------
(* Properties of the conversion hooks.                                      *)

(* The hooks O and I are inverses of each other at smob H: O applied to H   *)
(* returns a value that I takes back to H.                                  *)
MutualInverses(O, I, H) ==
    LET o == HookCall(O, H)
    IN  /\ ~o.threw
        /\ LET i == HookCall(I, o.val) IN ~i.threw /\ i.val = H

(* The round trip of smob conv.arg gave the smob back.                      *)
RoundTripReturnsHandle == ~conv.out.threw /\ conv.out.val = conv.arg

(* C25, as stated: whenever *smob->scm* and *scm->smob* are inverses of     *)
(* each other at a smob H, converting H outbound and the result inbound     *)
(* with the tag of H gives H itself; so it does with both hooks unset.      *)
C25_RoundTripAnyInverses ==
    conv.op = "round_trip" =>
       /\ MutualInverses(conv.from_hook, conv.to_hook, conv.arg)
             => RoundTripReturnsHandle
       /\ (gdbscm_is_false(conv.from_hook) /\ gdbscm_is_false(conv.to_hook))
             => RoundTripReturnsHandle

(* C25, amended: the round trip gives H itself when the hooks are inverses  *)
(* of each other at H and what *smob->scm* returns for H is H or is not a   *)
(* smob with the tag of H (a smob with that tag comes back as it is,        *)
(* *scm->smob* is not applied to it); so it does with both hooks unset.     *)
C25_RoundTrip ==
    conv.op = "round_trip" =>
       /\ (/\ MutualInverses(conv.from_hook, conv.to_hook, conv.arg)
           /\ \/ conv.mid = conv.arg
              \/ ~SCM_SMOB_PREDICATE(conv.tag, conv.mid))
             => RoundTripReturnsHandle
       /\ (/\ MutualInverses(conv.from_hook, conv.to_hook, conv.arg)
           /\ SCM_SMOB_PREDICATE(conv.tag, conv.mid))
             => (~conv.out.threw /\ conv.out.val = conv.mid
                 /\ ~conv.out.called)
       /\ (gdbscm_is_false(conv.from_hook) /\ gdbscm_is_false(conv.to_hook))
             => RoundTripReturnsHandle

(* C25, its case: a smob went out wrapped and came back through             *)
(* *scm->smob*.                                                             *)
C25_Witness ==
    /\ conv.op = "round_trip"
    /\ MutualInverses(conv.from_hook, conv.to_hook, conv.arg)
    /\ conv.mid = Wrapper(conv.arg)
    /\ conv.out.called /\ conv.out.val = conv.arg

----------------------------------------------------------------------------
(* Properties of the translation of gdb exceptions.                         *)

(* C28: the <gdb:exception> made from a gdb exception has the key signal    *)
(* and SIGINT as its data when the exception is a quit, whatever its error  *)
(* code; otherwise the key gdb:memory-error when the error code is          *)
(* MEMORY_ERROR; otherwise the key gdb:error; in the last two cases the     *)
(* message of the gdb exception is the one argument of the message "~A".    *)
C28_FromGdbException ==
    conv.op = "translate" =>
       LET exception == conv.raised[1]
           exc == conv.host.exc
       IN  /\ conv.host.exit = "return"
           /\ IF exception.reason = "RETURN_QUIT"
              THEN /\ exc.key = "signal"
                   /\ exc.data = ScmList(<<SIGINT>>)
              ELSE /\ exc.key = IF exception.error = "MEMORY_ERROR"
                                THEN "gdb:memory-error" ELSE "gdb:error"
                   /\ exc.message = "~A"
                   /\ exc.args = <<exception.message>>

(* C28, its case: a quit that carries the error code MEMORY_ERROR was       *)
(* translated.                                                              *)
C28_Witness ==
    /\ conv.op = "translate"
    /\ conv.raised[1].reason = "RETURN_QUIT"
    /\ conv.raised[1].error = "MEMORY_ERROR"
    /\ conv.host.exc.key = "signal"

(* Some call into gdb made by the last procedure raised a gdb exception.    *)
HostFailed == \E i \in 1..Len(conv.raised) : Raised(conv.raised[i])

(* C29: whenever a call into gdb made for a procedure on types raises a gdb *)
(* exception, the procedure throws a Scheme exception: it does not return a *)
(* value (type-sizeof and lookup-type included).                            *)
C29_HostFailureIsThrown ==
    (conv.op \in {"type-sizeof", "equal?", "lookup-type"}
        /\ HostFailed)
       => conv.host.exit = "throw"

(* C30: a gdb exception raised by a call into gdb made for a frame or       *)
(* symtab procedure never leaves the procedure as a gdb non-local exit: the *)
(* procedure throws its translation (frame-unwind-stop-reason and           *)
(* symtab-fullname included).                                               *)
C30_HostCallsInsideBoundary ==
    (conv.op \in {"frame-pc", "frame-unwind-stop-reason", "symtab-fullname"}
        /\ HostFailed)
       => /\ conv.host.exit = "throw"
          /\ \E i \in 1..Len(conv.raised) :
                /\ Raised(conv.raised[i])
                /\ conv.host.exc =
                      gdbscm_scm_from_gdb_exception(conv.raised[i])

----------------------------------------------------------------------------
(* Properties of the field iterator.                                        *)

(* A field iterator that only iterator-next! has driven.                    *)
FieldIterator ==
    iter.made /\ iter.next_x = tyscm_next_field_x_scm /\ res.only_next

(* C31: a field iterator over a type with K fields starts with progress 0;  *)
(* driven only by iterator-next!, its n-th call returns the field smob of   *)
(* field n - 1 for n <= K and #f for every n > K, none throws, and after n  *)
(* calls the progress is n, or K once n has passed K.                       *)
C31_FieldIterator ==
    FieldIterator =>
       LET K == TYPE_NFIELDS(iter.object)
           n == res.calls
       IN  /\ tyscm_is_type(iter.object)
           /\ iter.progress = scm_from_int(Min(n, K))
           /\ res.op = "make-field-iterator" => n = 0
           /\ res.reached =>
                 /\ ~res.threw
                 /\ res.val = IF n <= K
                              THEN tyscm_make_field_smob(iter.object, n - 1)
                              ELSE SCM_BOOL_F

(* C31, its case: a field iterator over a type with at least two fields     *)
(* was called twice more than the type has fields.                          *)
C31_Witness ==
    /\ FieldIterator /\ res.reached
    /\ TYPE_NFIELDS(iter.object) >= 2
    /\ res.calls = TYPE_NFIELDS(iter.object) + 2
    /\ res.val = SCM_BOOL_F

----------------------------------------------------------------------------
(* Properties of exception printing.                                        *)

PrintOps == {"print-exception", "print-exception-with-args"}
Wrapped == res.out.key = exscm_with_stack_error_symbol
MessagePart(w) == w.what \in {"message", "diagnostic"}

(* What the print mode decides: nothing is written in mode none, the        *)
(* message part alone in mode message.                                      *)
ModeDecides ==
    LET w == res.out.written
    IN  /\ print_excp = gdbscm_print_excp_none => w = <<>>
        /\ print_excp = gdbscm_print_excp_message =>
              Len(w) = 1 /\ MessagePart(w[1])

(* A wrapped exception is printed unwrapped: in mode full its captured      *)
(* stack comes first, and in both modes the message is that of the key and  *)
(* args it wraps.                                                           *)
PrintedUnwrapped ==
    LET o == res.out
        w == o.written
    IN  /\ print_excp = gdbscm_print_excp_full =>
              /\ Len(w) = 2 /\ MessagePart(w[2])
              /\ w[1] = Backtrace(o.args[2])
        /\ (print_excp # gdbscm_print_excp_none /\ o.found) =>
              /\ w[Len(w)].key = o.args[1]
              /\ w[Len(w)].args = SubSeq(o.args, 3, Len(o.args))

(* C32, as stated: printing follows the print mode: nothing in mode none,   *)
(* only the message in mode message, and a wrapped-with-stack exception is  *)
(* printed with its captured stack before the message in mode full and      *)
(* with its original key and args in both modes; the mode is message until  *)
(* it is set.                                                               *)
C32_PrintFollowsMode ==
    /\ res.op = "none" => print_excp = gdbscm_print_excp_message
    /\ res.op \in PrintOps =>
          /\ ModeDecides
          /\ Wrapped => PrintedUnwrapped

(* C32, amended: the same, but a wrapped-with-stack exception is unwrapped  *)
(* only if the caller did not pass #f as the stack, as                      *)
(* gdbscm_print_exception never does; with #f no stack is written in any    *)
(* mode and the message is that of the key and args as they were passed.    *)
C32_PrintFollowsModeAndStack ==
    /\ res.op = "none" => print_excp = gdbscm_print_excp_message
    /\ res.op \in PrintOps =>
          LET o == res.out
              w == o.written
          IN  /\ ModeDecides
              /\ (Wrapped /\ o.stack # "#f") => PrintedUnwrapped
              /\ res.op = "print-exception" => o.stack = "#t"
              /\ (o.stack = "#f" /\ print_excp # gdbscm_print_excp_none) =>
                    /\ Len(w) = 1 /\ MessagePart(w[1])
                    /\ o.found => w[1].key = o.key /\ w[1].args = o.args

(* C32, its case: a wrapped-with-stack exception was printed in mode full   *)
(* and its stack and its message were written.                              *)
C32_Witness ==
    /\ res.op = "print-exception" /\ Wrapped /\ res.out.found
    /\ print_excp = gdbscm_print_excp_full
    /\ Len(res.out.written) = 2

----------------------------------------------------------------------------
(* Properties of unlinking and of failed conversions of chained smobs.      *)

(* The smob is on the list of a key of a live objfile.                      *)
OnSomeChain(g) ==
    \E objfile \in Objfiles, key \in AllKeys :
       /\ objfiles[objfile].alive
       /\ g \in Chain(smobs, objfiles, objfile, key)

(* The step leaves the list of every key of every live objfile as it was:   *)
(* its head and the links of its smobs.                                     *)
ChainsUnchanged ==
    \A objfile \in Objfiles, key \in AllKeys :
       objfiles[objfile].alive =>
          /\ objfiles'[objfile].data[key] = objfiles[objfile].data[key]
          /\ \A h \in Chain(smobs, objfiles, objfile, key) :
                /\ smobs'[h].prev = smobs[h].prev
                /\ smobs'[h].next = smobs[h].next

(* The smob was unlinked before: by a rollback or a cleanup, which clear    *)
(* the native pointer, or by save_objfile_types.                            *)
UnlinkedBefore(g) ==
    /\ smobs[g].st = "alloc" /\ ~OnSomeChain(g)
    /\ \/ smobs[g].native = NULL
       \/ smobs[g].kind = tyscm_objfile_data_key
            /\ smobs[g].native = ArchOwned

(* C33: when the collector frees a smob that was unlinked before (by the    *)
(* rollback of a failed sal conversion or by the cleanup of its objfile),   *)
(* the list of every key of every live objfile stays as it was.             *)
C33_UnlinkingNonMember ==
    [][\A g \in Slots :
          (/\ clast'.op = "collect"
           /\ UnlinkedBefore(g) /\ smobs'[g].st = "freed")
          => ChainsUnchanged]_vars

(* The operations that hand a new chained smob to the script.               *)
MakeOps == {"symtab", "symbol", "type", "sal"}

(* C34: when the conversion of a new symtab, symbol, type or sal smob       *)
(* throws, the list of every key of every live objfile is what it was       *)
(* before the call, head and links, and the storage the call took for the   *)
(* new smob (for a sal, for its symtab smob) is on none of them.            *)
C34_FailedConversionLeavesChains ==
    [][(clast'.op \in MakeOps /\ clast'.threw) =>
          /\ ChainsUnchanged
          /\ \A g \in FreeSlots, objfile \in Objfiles, key \in AllKeys :
                objfiles'[objfile].alive =>
                   g \notin Chain(smobs', objfiles', objfile, key)]_vars

(* C35: the new symtab, symbol or type smob that is passed to the           *)
(* conversion, and so to the *smob->scm* hook, already has its native       *)
(* pointer: its validity check is true.                                     *)
C35_HookSeesNative ==
    clast.op \in {"symtab", "symbol", "type"} =>
       /\ clast.seen.st = "alloc"
       /\ clast.seen.native # NULL
       /\ clast.seen.kind \in Keys => SmobValid(clast.seen)

(* The handle that inbound conversion of v gives, and one step of the     *)
(* accessors seen against it.                                              *)
InboundHandle(v) ==
    IF gdbscm_is_gsmob(v) THEN v
    ELSE LET result == gdbscm_scm_to_gsmob_safe(conv.to_hook, v, AnyTag).val
         IN  IF result \in SmobChoices THEN result ELSE SCM_BOOL_F
AuxStep ==
    LET v == conv'.arg
        H == InboundHandle(v)
    IN  /\ (conv'.op = "set-gsmob-aux!" /\ gdbscm_is_gsmob(H))
             => /\ ~conv'.out.threw
                /\ conv'.aux = [conv.aux EXCEPT ![H] = conv'.x]
        /\ (conv'.op = "gsmob-aux" /\ gdbscm_is_gsmob(H))
             => /\ ~conv'.out.threw
                /\ conv'.out.val = conv.aux[H]
                /\ conv'.aux = conv.aux
        /\ conv'.op = "init" => conv'.aux[v] = SCM_BOOL_F
(* C36: for every value v that inbound conversion maps to a handle H (v is  *)
(* H, or a wrapper that the *scm->smob* hook maps to H), set-gsmob-aux! of  *)
(* v and x stores x in the aux slot of H and changes no other slot, and     *)
(* gsmob-aux of v returns the aux slot of H and changes no slot; the aux    *)
(* slot of a newly constructed handle is #f.                                *)
C36_AuxThroughConversion == [][AuxStep]_vars

(* One resize seen against C37: a resize of the read buffer to another      *)
(* valid size succeeds when no buffered byte is unconsumed, and a resize of *)
(* the write buffer to another valid size succeeds when no written byte is  *)
(* unflushed; the port holds no pushed-back byte.                           *)
ResizeAllowed ==
    ~port.in_putback =>
       /\ (/\ last'.op = "set_read_buffer_size"
           /\ ValidBufSize(last'.n) /\ last'.n # port.read_buf_size
           /\ Unread(port) = 0)
          => last'.err = NoErr /\ port'.read_buf_size = last'.n
       /\ (/\ last'.op = "set_write_buffer_size"
           /\ ValidBufSize(last'.n) /\ last'.n # port.write_buf_size
           /\ Len(port.write_buf) = 0)
          => last'.err = NoErr /\ port'.write_buf_size = last'.n

(* C37: a resize that changes the capacity is rejected only when the        *)
(* buffer holds pending data: a read buffer whose buffered bytes have all   *)
(* been consumed, and a write buffer whose bytes have all been flushed, can *)
(* be resized to another capacity in [1, 4096].                             *)
C37_ResizeWhenDrained == [][ResizeAllowed]_vars

(* The bytes of the read buffers that are still to be consumed.             *)
UnreadBytes(p) ==
    SubSeq(p.read_buf, p.read_pos + 1, Len(p.read_buf))
       \o (IF p.in_putback
           THEN SubSeq(p.saved_read_buf, p.saved_read_pos + 1,
                       Len(p.saved_read_buf))
           ELSE <<>>)

(* The operations and the errors of C38, and one step seen against it.  A   *)
(* fill is taken on a port that is reading: on any other port the port      *)
(* layer flushes and switches the mode before it calls the fill method.     *)
StreamOps ==
    {"fill", "flush", "write", "seek", "end_input",
     "set_read_buffer_size", "set_write_buffer_size"}
StreamErrors == {"out-of-range", "gdb:memory-error", "misc-error"}
FailureChangesNothing ==
    (/\ last'.op \in StreamOps /\ last'.err.key \in StreamErrors
     /\ last'.op = "fill" => port.rw_active = SCM_PORT_READ) =>
       /\ port'.current = port.current
       /\ port'.rw_active = port.rw_active
       /\ port'.mode = port.mode
       /\ UnreadBytes(port') = UnreadBytes(port)
       /\ port'.write_buf = port.write_buf
       /\ \A i \in DOMAIN last'.io :
             ~(last'.io[i].op = "write" /\ last'.io[i].ok)

(* C38: a fill, flush, direct write, seek, end-input or resize that fails   *)
(* with an out-of-range, memory or buffer-not-empty error leaves the        *)
(* position, the mode and the contents of both buffers as they were before  *)
(* the call, and has written nothing to the inferior.                       *)
C38_FailureChangesNothing == [][FailureChangesNothing]_vars

(* A type smob handed to the script whose type belongs to an objfile that   *)
(* was freed.                                                               *)
TypeOfFreedObjfile(g) ==
    /\ smobs[g].st = "alloc" /\ smobs[g].held
    /\ smobs[g].kind = tyscm_objfile_data_key
    /\ smobs[g].native \in Objfiles
    /\ ~objfiles[smobs[g].native].alive

(* C39: once an objfile is freed every type smob that was on its list has a *)
(* copy of its type that belongs to no objfile and has its links cleared,   *)
(* and in no state reached does a type smob refer to a type of an objfile   *)
(* that was freed.                                                          *)
C39_TypesOutliveObjfile ==
    /\ clast.op = "free_objfile" =>
          \A g \in clast.types :
             /\ smobs[g].native = ArchOwned
             /\ smobs[g].prev = NULL /\ smobs[g].next = NULL
    /\ \A g \in Slots : ~TypeOfFreedObjfile(g)

(* The position of the next byte a reader gets: current less what is        *)
(* buffered and not consumed.                                               *)
ReadPosition(p) == p.current - Unread(p)

(* One step of a plain buffered read of a port just opened, seen against an *)
(* unbuffered read of the range: the port opens at position 0; the bytes    *)
(* buffered and not consumed are the bytes of the inferior from the read    *)
(* position on; a byte taken is the byte at the read position and moves it  *)
(* by one; a fill does not move it, buffers between one byte and a whole    *)
(* buffer, and reports the end exactly at position size.                    *)
FreshRead ==
    last'.fresh =>
       /\ ReadPosition(port') \in 0..port'.size
       /\ UnreadBytes(port')
             = ReadMem(Add(port'.start, ReadPosition(port')), Unread(port'))
       /\ last'.op = "open" => ReadPosition(port') = 0
       /\ last'.op = "get" =>
             /\ last'.ret = InitByte(Add(port.start, ReadPosition(port)))
             /\ ReadPosition(port') = ReadPosition(port) + 1
       /\ last'.op = "fill" =>
             /\ ReadPosition(port') = ReadPosition(port)
             /\ last'.err = EofMark <=> ReadPosition(port) = port.size
             /\ last'.err = NoErr =>
                   /\ Unread(port') \in 1..ReadCapacity(port')
                   /\ last'.ret
                         = InitByte(Add(port.start, ReadPosition(port)))
       /\ last'.op = "set_read_buffer_size" =>
             ReadPosition(port') = ReadPosition(port)

========================================================================
